---- MODULE Spec2Model ----
(***************************************************************************)
(* The weekly ledger engine of the SGA finance platform.                   *)
(*                                                                         *)
(* Ledger Writer: mergeSpreadsheet (src/src/lib/spreadsheet-merger.ts,     *)
(* the formula-writing version, lines 297-880) and the document            *)
(* initialisation generateMasterSpreadsheet (src/src/lib/master-           *)
(* generator.ts).  A workbook is a sequence of sheets, a sheet a sequence  *)
(* of rows, a row a sequence of cells.  Formulas are kept structurally     *)
(* (operator and cell references) so that the chain of references and the  *)
(* values a spreadsheet application computes from them can both be stated. *)
(*                                                                         *)
(* Display-Name Allocator: applyOrgNumbering (src/src/lib/org-             *)
(* numbering.ts).  Organization names are sequences of characters there,   *)
(* so that trimming, lower-casing and appending a number are computed.     *)
(*                                                                         *)
(* Ledger Reader: parseWeeklySpreadsheet, getWeekSummaries and             *)
(* findWeekByDate (src/unnamed/part_008, the xlsx parser), reading the     *)
(* workbooks the Writer and the reviewers produce.                         *)
(***************************************************************************)
EXTENDS Integers, Sequences, FiniteSets, TLC

VARIABLES doc, master, batch, meetingDate, result, origin, merges,
          submitted, numbered, parsed, tz, response, uploaded, note, decoded

vars == <<doc, master, batch, meetingDate, result, origin, merges, submitted, numbered, parsed, tz, response, uploaded, note, decoded>>

(***************************************************************************)
(* Bounds of the model.                                                    *)
(***************************************************************************)
MaxMerges == 3

(***************************************************************************)
(* Cell values.  ExcelJS cell values are strings, numbers, null or         *)
(* { formula } objects; each is a tagged record here.                      *)
(***************************************************************************)
Str(s) == [t |-> "str", s |-> s]

Num(n) == [t |-> "num", n |-> n]

Null == [t |-> "null"]

Ref(c, r) == [col |-> c, row |-> r]

NoRef == [col |-> "", row |-> 0]

\* { formula: `${a}-${b}` }
FMinus(a, b) == [t |-> "formula", op |-> "minus", a |-> a, b |-> b]

\* { formula: `IF(${g}="Approved",${f},0)` }
FIfApproved(g, f) == [t |-> "formula", op |-> "ifApproved", a |-> g, b |-> f]

\* { formula: `SUM(${a}:${b})` }
FSum(a, b) == [t |-> "formula", op |-> "sum", a |-> a, b |-> b]

ColumnLetters == <<"A", "B", "C", "D", "E", "F", "G", "H", "I", "J", "K", "L">>

ColNum(c) ==
  CASE c = "A" -> 1 [] c = "B" -> 2 [] c = "C" -> 3 [] c = "D" -> 4
    [] c = "E" -> 5 [] c = "F" -> 6 [] c = "G" -> 7 [] c = "H" -> 8
    [] c = "I" -> 9 [] c = "J" -> 10 [] c = "K" -> 11 [] c = "L" -> 12

(***************************************************************************)
(* Rows.  merged = n > 0 says that the cells of columns 1..n are merged    *)
(* into the cell of column 1 (worksheet.mergeCells): reading any of them   *)
(* gives the value of column 1.                                            *)
(***************************************************************************)
Row(cells) == [cells |-> cells, merged |-> 0]

MergedRow(cells, n) == [cells |-> cells, merged |-> n]

EmptyRow == Row(<< >>)

\* row.getCell(c).value
GetCell(row, c) ==
  IF c <= row.merged /\ Len(row.cells) >= 1 THEN row.cells[1]
  ELSE IF c <= Len(row.cells) THEN row.cells[c]
  ELSE Null

\* worksheet.getCell(`${col}${r}`).value
CellAt(rows, c, r) ==
  IF r >= 1 /\ r <= Len(rows) THEN GetCell(rows[r], c) ELSE Null

\* addRow gone wrong: the new row is written at the last row, not after it
addRowAtLastRow(rows, cells) ==
  IF rows = << >> THEN <<Row(cells)>>
  ELSE [rows EXCEPT ![Len(rows)] = Row(cells)]

\* worksheet.addRow(values): the new row goes after the last row
addRow(rows, cells) == Append(rows, Row(cells))

(***************************************************************************)
(* String tests of the code, as tables over the strings of the model.      *)
(***************************************************************************)
\* value.toLowerCase().includes('remaining budget')
IncludesRemainingBudget(s) ==
  s \in {"Remaining Budget:", "Remaining Budget", "Remaining Budget Committee"}

\* value.toLowerCase().includes('date')
IncludesDate(s) == s \in {"Date of Meeting", "Date"}

\* The time zones the process may run in, and the sign of their offset from
\* UTC in winter.
TimeZones == {"UTC", "America/New_York", "Europe/Berlin"}

UtcOffsetSign(zone) ==
  CASE zone = "America/New_York" -> 0 - 1
    [] zone = "Europe/Berlin" -> 1
    [] OTHER -> 0

\* The calendar days of the model, as ISO dates, with their day of the year.
CalendarDays ==
  {"2026-01-30", "2026-01-31", "2026-02-01", "2026-02-06", "2026-02-07", "2026-02-08"}

DayNumber(iso) ==
  CASE iso = "2026-01-30" -> 30 [] iso = "2026-01-31" -> 31
    [] iso = "2026-02-01" -> 32 [] iso = "2026-02-06" -> 37
    [] iso = "2026-02-07" -> 38 [] iso = "2026-02-08" -> 39

PreviousDay(iso) == CHOOSE d \in CalendarDays : DayNumber(d) = DayNumber(iso) - 1

\* the meetingDate strings new Date() parses: ISO dates, read as UTC midnight
ParseableDates == {"2026-02-01", "2026-02-08"}

\* date.toLocaleDateString('en-US', {month: 'numeric', day: 'numeric',
\* year: '2-digit'}) of a local calendar day
formatMeetingDateShort(day) ==
  CASE day = "2026-01-31" -> "1/31/26" [] day = "2026-02-01" -> "2/1/26"
    [] day = "2026-02-07" -> "2/7/26" [] day = "2026-02-08" -> "2/8/26"

\* formatMeetingDateShort(new Date(meetingDate)), and the fallback of
\* mergeSpreadsheet: an absent date stays absent (""), an unparseable one is
\* kept as given.  UTC midnight is still the day before in a time zone west
\* of Greenwich.
formatMeetingDate(md) ==
  IF md \in ParseableDates
  THEN formatMeetingDateShort(IF UtcOffsetSign(tz) < 0 THEN PreviousDay(md) ELSE md)
  ELSE md

\* `Week of ${formattedMeetingDate || 'Pending'}`
WeekTitle(fmd) == "Week of " \o (IF fmd = "" THEN "Pending" ELSE fmd)

(***************************************************************************)
(* Request records (BudgetRequest).  displayName = "" stands for an absent *)
(* displayName.                                                            *)
(***************************************************************************)
ReqSGA ==
  [submissionId |-> "s1", organizationName |-> "SGA", displayName |-> "SGA 1",
   requestType |-> "AFR", amount |-> 200, description |-> "Pizza",
   approvalStatus |-> "Pending Approval", financeRoute |-> "Sunday Meeting",
   accountNumber |-> "A-100", isPreApproved |-> FALSE]

ReqChess ==
  [submissionId |-> "s2", organizationName |-> "Chess", displayName |-> "",
   requestType |-> "AFR", amount |-> 75, description |-> "Snacks",
   approvalStatus |-> "Approved", financeRoute |-> "Auto-Approve",
   accountNumber |-> "A-200", isPreApproved |-> TRUE]

ReqRobotics ==
  [submissionId |-> "s3", organizationName |-> "Robotics", displayName |-> "",
   requestType |-> "Reallocation", amount |-> 150, description |-> "Parts",
   approvalStatus |-> "Pending Approval", financeRoute |-> "Sunday Meeting",
   accountNumber |-> "R-300", isPreApproved |-> FALSE]

ReqDance ==
  [submissionId |-> "s4", organizationName |-> "Dance", displayName |-> "Dance 2",
   requestType |-> "Reallocation", amount |-> 60, description |-> "Shoes",
   approvalStatus |-> "Approved", financeRoute |-> "Budget Review",
   accountNumber |-> "R-400", isPreApproved |-> TRUE]

\* The batches handed to mergeSpreadsheet: none, one category only, both
\* categories interleaved.
\* organizations whose names hold words the Reader looks for in rows that
\* are no data rows
ReqTotalFitness ==
  [submissionId |-> "s5", organizationName |-> "Total Fitness", displayName |-> "",
   requestType |-> "AFR", amount |-> 50, description |-> "Weights",
   approvalStatus |-> "Pending Approval", financeRoute |-> "Sunday Meeting",
   accountNumber |-> "A-500", isPreApproved |-> FALSE]

ReqBudgetCommittee ==
  [submissionId |-> "s6", organizationName |-> "Remaining Budget Committee", displayName |-> "",
   requestType |-> "AFR", amount |-> 40, description |-> "Binders",
   approvalStatus |-> "Pending Approval", financeRoute |-> "Sunday Meeting",
   accountNumber |-> "A-600", isPreApproved |-> FALSE]

Batches ==
  { << >>,
    <<ReqChess, ReqSGA>>,
    <<ReqRobotics, ReqDance>>,
    <<ReqSGA, ReqRobotics, ReqChess>> }

MeetingDates == {"", "2026-02-01"}

StartingBudgets == {1000}

\* requests.filter((r) => r.requestType === type), order kept
RECURSIVE filterByRequestType(_, _)
filterByRequestType(requests, type) ==
  IF requests = << >> THEN << >>
  ELSE LET rest == filterByRequestType(Tail(requests), type)
       IN IF Head(requests).requestType = type
          THEN <<Head(requests)>> \o rest
          ELSE rest

\* request.displayName || request.organizationName
DisplayNameOf(request) ==
  IF request.displayName # "" THEN request.displayName
  ELSE request.organizationName

(***************************************************************************)
(* Column headers.                                                         *)
(***************************************************************************)
AFR_COLUMNS ==
  <<Str("Date of Meeting"), Str(""), Str("Organization"),
    Str("AFR'd / Requested Amount"), Str("Amended"), Str("After Amendments"),
    Str("Status"), Str("Final Amount"), Str("Remaining Budget"),
    Str("Name of Org"), Str("Entered in KFS?"), Str("Account Number")>>

REALLOCATION_COLUMNS ==
  <<Str("Date"), Str("Organization"), Str("Requested Amount"),
    Str("Account Number")>>

MASTER_AFR_COLUMNS ==
  <<Str("Date of Meeting"), Str("Notes"), Str("Organization"), Str("AFR'd"),
    Str("Amended"), Str("After Amendments"), Str("Status"),
    Str("Final Amount"), Str("Remaining Budget"), Str("Name of Org"),
    Str("Entered in KFS?"), Str("Account Number")>>

MASTER_REALLOCATION_COLUMNS ==
  <<Str("Date of Meeting"), Str("Notes"), Str("Organization"),
    Str("Requested Amount"), Str("Approved Amount"), Str("Status"),
    Str("Account Number")>>

(***************************************************************************)
(* Workbooks.                                                              *)
(***************************************************************************)
Sheet(id, name, rows) == [id |-> id, name |-> name, rows |-> rows]

NoDoc == [kind |-> "none", sheets |-> << >>]

Corrupt == [kind |-> "corrupt", sheets |-> << >>]

Workbook(sheets) == [kind |-> "wb", sheets |-> sheets]

\* workbook.getWorksheet(name): index of the sheet, 0 if there is none
getWorksheet(sheets, name) ==
  IF \E i \in 1..Len(sheets) : sheets[i].name = name
  THEN CHOOSE i \in 1..Len(sheets) :
         /\ sheets[i].name = name
         /\ \A j \in 1..(i - 1) : sheets[j].name # name
  ELSE 0

\* workbook.getWorksheet(id), id a number
getWorksheetById(sheets, id) ==
  IF \E i \in 1..Len(sheets) : sheets[i].id = id
  THEN CHOOSE i \in 1..Len(sheets) : sheets[i].id = id
  ELSE 0

\* the id workbook.addWorksheet gives a new sheet: the first free one
nextId(sheets) ==
  CHOOSE n \in 1..(Len(sheets) + 1) :
    /\ \A i \in 1..Len(sheets) : sheets[i].id # n
    /\ \A m \in 1..(n - 1) : \E i \in 1..Len(sheets) : sheets[i].id = m

\* workbook.addWorksheet(name)
addWorksheet(sheets, name, rows) ==
  Append(sheets, Sheet(nextId(sheets), name, rows))

(***************************************************************************)
(* generateMasterSpreadsheet                                               *)
(***************************************************************************)
\* Row 1: title merged over A1:H1, starting budget in I1.  Row 2: headers.
createAFRSheet(semesterName, startingBudget) ==
  <<MergedRow(<<Str(semesterName), Null, Null, Null, Null, Null, Null, Null,
                Num(startingBudget)>>, 8),
    Row(MASTER_AFR_COLUMNS)>>

\* Row 1: title merged over A1:E1.  Row 2: headers.
createReallocationSheet(semesterName) ==
  <<MergedRow(<<Str(semesterName \o " - Reallocations")>>, 5),
    Row(MASTER_REALLOCATION_COLUMNS)>>

generateMasterSpreadsheet(semesterName, startingBudget) ==
  Workbook(
    addWorksheet(
      addWorksheet(<< >>, "AFR Requests",
                   createAFRSheet(semesterName, startingBudget)),
      "Reallocation Requests", createReallocationSheet(semesterName)))

(***************************************************************************)
(* Ledger Writer: the helpers of mergeSpreadsheet.                         *)
(***************************************************************************)
\* one title cell, merged over columnCount columns
addSectionHeader(rows, title, columnCount) ==
  Append(rows, MergedRow(<<Str(title)>>, columnCount))

addAFRColumnHeaders(rows) == addRow(rows, AFR_COLUMNS)

addReallocationColumnHeaders(rows) == addRow(rows, REALLOCATION_COLUMNS)

\* AFRRowCells gone wrong: Final Amount takes the requested amount (D), not
\* After Amendments (F)
AFRRowCellsFinalFromRequested(request, index, fmd, rowNumber) ==
  <<Str(IF index = 0 THEN fmd ELSE ""),
    Str(""),
    Str(DisplayNameOf(request)),
    Num(request.amount),
    FMinus(Ref("D", rowNumber), Ref("F", rowNumber)),
    Null,
    Str(""),
    FIfApproved(Ref("G", rowNumber), Ref("D", rowNumber)),
    Null,
    Str(DisplayNameOf(request)),
    Str(""),
    Str(request.accountNumber)>>

\* The cells addAFRRequests writes for one request (index counts from 0).
AFRRowCells(request, index, fmd, rowNumber) ==
  <<Str(IF index = 0 THEN fmd ELSE ""),
    Str(""),
    Str(DisplayNameOf(request)),
    Num(request.amount),
    FMinus(Ref("D", rowNumber), Ref("F", rowNumber)),
    Null,
    Str(""),
    FIfApproved(Ref("G", rowNumber), Ref("F", rowNumber)),
    Null,
    Str(DisplayNameOf(request)),
    Str(""),
    Str(request.accountNumber)>>

\* rows after addAFRRequests; firstDataRow = Len(rows) + 1 and lastDataRow =
\* the length of the result
addAFRRequests(rows, requests, fmd) ==
  rows \o [i \in 1..Len(requests) |->
             Row(AFRRowCells(requests[i], i - 1, fmd, Len(rows) + i))]

\* The cells addReallocationRequests writes for one request.
ReallocationRowCells(request, index, fmd) ==
  <<Str(IF index = 0 THEN fmd ELSE ""),
    Str(DisplayNameOf(request)),
    Num(request.amount),
    Str(request.accountNumber)>>

addReallocationRequests(rows, requests, fmd) ==
  rows \o [i \in 1..Len(requests) |->
             Row(ReallocationRowCells(requests[i], i - 1, fmd))]

\* new Array(AFR_COLUMNS.length).fill('') with the label in column G
LabelRowCells(label, col, formula) ==
  [c \in 1..12 |-> IF c = 7 THEN Str(label)
                   ELSE IF c = col THEN formula
                   ELSE Str("")]

\* addWeeklySubtotalRows gone wrong: the SUM range starts one row above the
\* first data row
addWeeklySubtotalRowsLongSum(rows, firstDataRow, lastDataRow, previousRemainingCell, initialBudgetCell) ==
  LET subtotalRowNumber == Len(rows) + 1
      withSubtotal ==
        addRow(rows, LabelRowCells("Weekly Subtotal:", 8,
                                   FSum(Ref("H", firstDataRow - 1),
                                        Ref("H", lastDataRow))))
  IN addRow(withSubtotal,
            LabelRowCells("Remaining Budget:", 9,
                          IF previousRemainingCell # NoRef
                          THEN FMinus(previousRemainingCell,
                                      Ref("H", subtotalRowNumber))
                          ELSE FMinus(initialBudgetCell,
                                      Ref("H", subtotalRowNumber))))

\* addWeeklySubtotalRows gone wrong: the SUM range starts one row late
addWeeklySubtotalRowsShortSum(rows, firstDataRow, lastDataRow, previousRemainingCell, initialBudgetCell) ==
  LET subtotalRowNumber == Len(rows) + 1
      withSubtotal ==
        addRow(rows, LabelRowCells("Weekly Subtotal:", 8,
                                   FSum(Ref("H", firstDataRow + 1),
                                        Ref("H", lastDataRow))))
  IN addRow(withSubtotal,
            LabelRowCells("Remaining Budget:", 9,
                          IF previousRemainingCell # NoRef
                          THEN FMinus(previousRemainingCell,
                                      Ref("H", subtotalRowNumber))
                          ELSE FMinus(initialBudgetCell,
                                      Ref("H", subtotalRowNumber))))

addWeeklySubtotalRows(rows, firstDataRow, lastDataRow, previousRemainingCell, initialBudgetCell) ==
  LET subtotalRowNumber == Len(rows) + 1
      withSubtotal ==
        addRow(rows, LabelRowCells("Weekly Subtotal:", 8,
                                   FSum(Ref("H", firstDataRow),
                                        Ref("H", lastDataRow))))
  IN addRow(withSubtotal,
            LabelRowCells("Remaining Budget:", 9,
                          IF previousRemainingCell # NoRef
                          THEN FMinus(previousRemainingCell,
                                      Ref("H", subtotalRowNumber))
                          ELSE FMinus(initialBudgetCell,
                                      Ref("H", subtotalRowNumber))))

\* column G is a string that includes 'remaining budget'
IsRemainingBudgetRow(row) ==
  /\ GetCell(row, 7).t = "str"
  /\ IncludesRemainingBudget(GetCell(row, 7).s)

\* findLastRemainingBudgetCell gone wrong: the scan stops at the first match
findFirstRemainingBudgetCell(rows) ==
  IF \E i \in 1..Len(rows) : IsRemainingBudgetRow(rows[i])
  THEN Ref("I", CHOOSE i \in 1..Len(rows) :
                  /\ IsRemainingBudgetRow(rows[i])
                  /\ \A j \in 1..(i - 1) : ~IsRemainingBudgetRow(rows[j]))
  ELSE NoRef

\* the last row whose column G includes 'remaining budget', as "I<row>"
findLastRemainingBudgetCell(rows) ==
  IF \E i \in 1..Len(rows) : IsRemainingBudgetRow(rows[i])
  THEN Ref("I", CHOOSE i \in 1..Len(rows) :
                  /\ IsRemainingBudgetRow(rows[i])
                  /\ \A j \in (i + 1)..Len(rows) : ~IsRemainingBudgetRow(rows[j]))
  ELSE NoRef

\* options.initialBudgetCell || 'I1'; the route passes no initialBudgetCell
defaultInitialBudgetCell == Ref("I", 1)

\* afrWorksheet.getCell('A2'): reading the cell creates row 2 when the sheet
\* has a single row
TouchA2(rows) == IF Len(rows) = 1 THEN Append(rows, EmptyRow) ELSE rows

\* typeof A2 === 'string' && A2.toLowerCase().includes('date')
hasMasterHeader(rows) ==
  /\ CellAt(rows, 1, 2).t = "str"
  /\ IncludesDate(CellAt(rows, 1, 2).s)

\* the blank separator row, added when the sheet has rows
addSeparator(rows) == IF Len(rows) > 0 THEN addRow(rows, << >>) ELSE rows

\* mergeAFRSection gone wrong: a batch whose first organization is already in
\* the sheet is taken for merged and skipped
mergeAFRSectionDeduplicated(rows, requests, fmd) ==
  IF \E i \in 1..Len(rows) :
       GetCell(rows[i], 3) = Str(DisplayNameOf(requests[1]))
  THEN rows
  ELSE
  LET previousRemainingCell == findLastRemainingBudgetCell(rows)
      withHeader == TouchA2(addSectionHeader(addSeparator(rows),
                                             WeekTitle(fmd), 12))
      withColumns == IF hasMasterHeader(withHeader) THEN withHeader
                     ELSE addAFRColumnHeaders(withHeader)
      withData == addAFRRequests(withColumns, requests, fmd)
  IN addWeeklySubtotalRows(withData, Len(withColumns) + 1, Len(withData),
                           previousRemainingCell, defaultInitialBudgetCell)

\* "Add new AFR requests if any", master path
mergeAFRSection(rows, requests, fmd) ==
  LET previousRemainingCell == findLastRemainingBudgetCell(rows)
      withHeader == TouchA2(addSectionHeader(addSeparator(rows),
                                             WeekTitle(fmd), 12))
      withColumns == IF hasMasterHeader(withHeader) THEN withHeader
                     ELSE addAFRColumnHeaders(withHeader)
      withData == addAFRRequests(withColumns, requests, fmd)
  IN addWeeklySubtotalRows(withData, Len(withColumns) + 1, Len(withData),
                           previousRemainingCell, defaultInitialBudgetCell)

\* 'AFR Requests' || 'AFR' || 'Sunday Meeting' || getWorksheet(1)
findAFRWorksheet(sheets) ==
  IF getWorksheet(sheets, "AFR Requests") # 0
  THEN getWorksheet(sheets, "AFR Requests")
  ELSE IF getWorksheet(sheets, "AFR") # 0 THEN getWorksheet(sheets, "AFR")
  ELSE IF getWorksheet(sheets, "Sunday Meeting") # 0
  THEN getWorksheet(sheets, "Sunday Meeting")
  ELSE getWorksheetById(sheets, 1)

\* findReallocationWorksheet gone wrong: only the short name is looked up
findReallocationWorksheetShortName(sheets) ==
  getWorksheet(sheets, "Reallocation")

\* 'Reallocation Requests' || 'Reallocation'
findReallocationWorksheet(sheets) ==
  IF getWorksheet(sheets, "Reallocation Requests") # 0
  THEN getWorksheet(sheets, "Reallocation Requests")
  ELSE getWorksheet(sheets, "Reallocation")

\* mergeSpreadsheet with a master buffer that loads
mergeIntoMaster(sheets, requests, md) ==
  LET fmd == formatMeetingDate(md)
      newAfrRequests == filterByRequestType(requests, "AFR")
      newReallocationRequests == filterByRequestType(requests, "Reallocation")
      withAfr == IF findAFRWorksheet(sheets) = 0
                 THEN addWorksheet(sheets, "AFR Requests", << >>)
                 ELSE sheets
      afr == findAFRWorksheet(withAfr)
      withBoth ==
        IF findReallocationWorksheet(withAfr) = 0
           /\ Len(newReallocationRequests) > 0
        THEN addWorksheet(withAfr, "Reallocation Requests",
                          addReallocationColumnHeaders(<< >>))
        ELSE withAfr
      realloc == findReallocationWorksheet(withBoth)
      afterAfr ==
        IF Len(newAfrRequests) > 0
        THEN [withBoth EXCEPT ![afr].rows =
                mergeAFRSection(@, newAfrRequests, fmd)]
        ELSE withBoth
  IN IF Len(newReallocationRequests) > 0 /\ realloc # 0
     THEN [afterAfr EXCEPT ![realloc].rows =
             addReallocationRequests(@, newReallocationRequests, fmd)]
     ELSE afterAfr

\* the 'Initial Budget' row of a fresh AFR sheet; column I is left null
InitialBudgetRowCells ==
  <<Str(""), Str(""), Str("Initial Budget"), Str(""), Str(""), Str(""),
    Str(""), Str(""), Null, Str(""), Str(""), Str("")>>

\* mergeSpreadsheet without a master buffer
mergeFresh(requests, md) ==
  LET fmd == formatMeetingDate(md)
      newAfrRequests == filterByRequestType(requests, "AFR")
      newReallocationRequests == filterByRequestType(requests, "Reallocation")
      base == addRow(addAFRColumnHeaders(<< >>), InitialBudgetRowCells)
      withColumns ==
        addAFRColumnHeaders(
          addSectionHeader(addRow(base, << >>), WeekTitle(fmd), 12))
      withData == addAFRRequests(withColumns, newAfrRequests, fmd)
      afrRows ==
        IF Len(newAfrRequests) > 0
        THEN addWeeklySubtotalRows(withData, Len(withColumns) + 1,
                                   Len(withData), NoRef, defaultInitialBudgetCell)
        ELSE base
      afrOnly == addWorksheet(<< >>, "AFR", afrRows)
  IN IF Len(newReallocationRequests) > 0
     THEN addWorksheet(afrOnly, "Reallocation Requests",
                       addReallocationRequests(
                         addReallocationColumnHeaders(<< >>),
                         newReallocationRequests, fmd))
     ELSE afrOnly

\* mergeSpreadsheet(masterBuffer, newRequests, { meetingDate }): the workbook
\* written and whether the call returned ("ok") or threw ("error"); loading a
\* buffer that is no workbook throws
mergeSpreadsheet(masterDoc, requests, md) ==
  IF masterDoc.kind = "corrupt"
  THEN [doc |-> masterDoc, result |-> "error"]
  ELSE IF masterDoc.kind = "none"
  THEN [doc |-> Workbook(mergeFresh(requests, md)), result |-> "ok"]
  ELSE [doc |-> Workbook(mergeIntoMaster(masterDoc.sheets, requests, md)),
        result |-> "ok"]

(***************************************************************************)
(* The values a spreadsheet application computes from the written          *)
(* formulas: a blank cell counts 0, text in arithmetic is an error, SUM    *)
(* skips text, IF compares the status text.                                *)
(***************************************************************************)
Val(n) == [ok |-> TRUE, v |-> n]

Err == [ok |-> FALSE, v |-> 0]

RECURSIVE Evaluate(_, _)
RECURSIVE SumRange(_, _, _, _)
Evaluate(rows, ref) ==
  LET cell == CellAt(rows, ColNum(ref.col), ref.row)
  IN CASE cell.t = "num" -> Val(cell.n)
       [] cell.t = "null" -> Val(0)
       [] cell.t = "str" -> Err
       [] cell.t = "formula" /\ cell.op = "minus" ->
            LET x == Evaluate(rows, cell.a)
                y == Evaluate(rows, cell.b)
            IN IF x.ok /\ y.ok THEN Val(x.v - y.v) ELSE Err
       [] cell.t = "formula" /\ cell.op = "ifApproved" ->
            IF CellAt(rows, ColNum(cell.a.col), cell.a.row) = Str("Approved")
            THEN Evaluate(rows, cell.b)
            ELSE Val(0)
       [] cell.t = "formula" /\ cell.op = "sum" ->
            SumRange(rows, cell.a.col, cell.a.row, cell.b.row)

SumRange(rows, col, from, to) ==
  IF from > to THEN Val(0)
  ELSE LET cell == CellAt(rows, ColNum(col), from)
           x == IF cell.t = "str" THEN Val(0) ELSE Evaluate(rows, Ref(col, from))
           rest == SumRange(rows, col, from + 1, to)
       IN IF x.ok /\ rest.ok THEN Val(x.v + rest.v) ELSE Err

(***************************************************************************)
(* The decision session: between merges a reviewer fills the blank         *)
(* After Amendments (F) and Status (G) cells of the Pool-Tracked rows.     *)
(***************************************************************************)
\* a Pool-Tracked data row: Final Amount (H) holds the IF formula
IsAFRDataRow(row) ==
  /\ GetCell(row, 8).t = "formula"
  /\ GetCell(row, 8).op = "ifApproved"

IsUndecided(row) == IsAFRDataRow(row) /\ GetCell(row, 7) = Str("")

Policies == {"approveAll", "amendOrDeny"}

\* approveAll: every row Approved at the requested amount.  amendOrDeny: rows
\* at odd row numbers Approved with the amount cut by 25, the others Denied.
ReviewRow(row, rowNumber, policy) ==
  IF ~IsUndecided(row) THEN row
  ELSE IF policy = "approveAll"
  THEN [row EXCEPT !.cells[6] = GetCell(row, 4),
                   !.cells[7] = Str("Approved")]
  ELSE IF rowNumber % 2 = 1
  THEN [row EXCEPT !.cells[6] = Num(GetCell(row, 4).n - 25),
                   !.cells[7] = Str("Approved")]
  ELSE [row EXCEPT !.cells[6] = GetCell(row, 4),
                   !.cells[7] = Str("Denied")]

ReviewSheets(sheets, policy) ==
  [i \in 1..Len(sheets) |->
     [sheets[i] EXCEPT !.rows =
        [r \in 1..Len(sheets[i].rows) |->
           ReviewRow(sheets[i].rows[r], r, policy)]]]

HasUndecided(sheets) ==
  \E i \in 1..Len(sheets) :
    \E r \in 1..Len(sheets[i].rows) : IsUndecided(sheets[i].rows[r])

(***************************************************************************)
(* Workbooks a user may bring that no operation of the system wrote.       *)
(***************************************************************************)
PlainRows ==
  <<Row(<<Str("Club"), Str("Amount")>>), Row(<<Str("Band"), Num(40)>>)>>

ForeignDocs ==
  { Workbook(<<Sheet(1, "Sheet1", PlainRows)>>),
    Workbook(<<Sheet(2, "Budget", PlainRows)>>),
    Workbook(<<Sheet(1, "Reallocation Requests",
                     createReallocationSheet("Fall 2025"))>>),
    Corrupt }

(***************************************************************************)
(* Display-Name Allocator (org-numbering.ts).  An organization name is a   *)
(* sequence of characters; the request keeps its submissionId so that the  *)
(* order of the output can be told.                                        *)
(***************************************************************************)
MaxBatchLen == 3

UpperCaseLetters ==
  <<"A", "B", "C", "D", "E", "F", "G", "H", "I", "J", "K", "L", "M",
    "N", "O", "P", "Q", "R", "S", "T", "U", "V", "W", "X", "Y", "Z">>

LowerCaseLetters ==
  <<"a", "b", "c", "d", "e", "f", "g", "h", "i", "j", "k", "l", "m",
    "n", "o", "p", "q", "r", "s", "t", "u", "v", "w", "x", "y", "z">>

DecimalDigits == <<"0", "1", "2", "3", "4", "5", "6", "7", "8", "9">>

WhiteSpace == {" ", "\t", "\n"}

\* String.prototype.toLowerCase
toLowerCase(s) ==
  [i \in 1..Len(s) |->
     IF \E k \in DOMAIN UpperCaseLetters : UpperCaseLetters[k] = s[i]
     THEN LowerCaseLetters[CHOOSE k \in DOMAIN UpperCaseLetters :
                             UpperCaseLetters[k] = s[i]]
     ELSE s[i]]

RECURSIVE trimStart(_)
trimStart(s) ==
  IF s # << >> /\ Head(s) \in WhiteSpace THEN trimStart(Tail(s)) ELSE s

RECURSIVE trimEnd(_)
trimEnd(s) ==
  IF s # << >> /\ s[Len(s)] \in WhiteSpace
  THEN trimEnd(SubSeq(s, 1, Len(s) - 1))
  ELSE s

\* String.prototype.trim
trim(s) == trimEnd(trimStart(s))

\* `${currentNumber}`: the decimal digits of a non-negative integer
RECURSIVE NumberToString(_)
NumberToString(n) ==
  IF n < 10 THEN <<DecimalDigits[n + 1]>>
  ELSE NumberToString(n \div 10) \o <<DecimalDigits[(n % 10) + 1]>>

\* request.organizationName.toLowerCase().trim()
OrgKey(request) == trim(toLowerCase(request.organizationName))

\* groupByOrganization: the requests of each key, in input order
groupByOrganization(reqs) ==
  [key \in {OrgKey(reqs[i]) : i \in DOMAIN reqs} |->
     SelectSeq(reqs, LAMBDA r : OrgKey(r) = key)]

\* A mutation of needsNumbering: every organization is numbered.
needsNumberingEveryGroup(groups) == DOMAIN groups

\* the keys of the groups with more than one request
needsNumbering(groups) == {key \in DOMAIN groups : Len(groups[key]) > 1}

\* A mutation of currentNumber: the counter is read before it is incremented.
currentNumberBeforeIncrement(orgCounters, key) == orgCounters[key]

\* (orgCounters.get(key) || 0) + 1
currentNumber(orgCounters, key) == orgCounters[key] + 1

\* `${request.organizationName} ${currentNumber}`
NumberedName(name, n) == name \o <<" ">> \o NumberToString(n)

\* The loop over the requests in original order; orgCounters maps every key
\* to its counter (0: not yet in the Map).
RECURSIVE numberInOrder(_, _, _, _, _)
numberInOrder(reqs, i, needs, orgCounters, out) ==
  IF i > Len(reqs) THEN out
  ELSE LET request == reqs[i]
           key == OrgKey(request)
       IN IF key \in needs
          THEN LET n == currentNumber(orgCounters, key)
               IN numberInOrder(reqs, i + 1, needs,
                    [orgCounters EXCEPT ![key] = n],
                    Append(out, [request EXCEPT
                      !.organizationName = NumberedName(request.organizationName, n)]))
          ELSE numberInOrder(reqs, i + 1, needs, orgCounters, Append(out, request))

applyOrgNumbering(reqs) ==
  IF Len(reqs) = 0 THEN << >>
  ELSE LET groups == groupByOrganization(reqs)
       IN numberInOrder(reqs, 1, needsNumbering(groups),
                        [key \in DOMAIN groups |-> 0], << >>)

\* The organization names of the submitted batches: two casings of one name,
\* a name with trailing white space, a name that ends in a number, an empty
\* and a white-space-only name.
OrganizationNames ==
  { <<"A", "c", "m", "e">>,
    <<"a", "c", "m", "e">>,
    <<"A", "c", "m", "e", " ">>,
    <<"B", "e", "t", "a">>,
    <<"S", "G", "A">>,
    <<"S", "G", "A", " ", "1">>,
    << >>,
    <<" ">> }

OrganizationNamesOf(reqs) == [i \in DOMAIN reqs |-> reqs[i].organizationName]

\* The records the CSV parser hands over: no displayName is set.
ToRequests(names) ==
  [i \in 1..Len(names) |-> [submissionId |-> i, organizationName |-> names[i]]]

(***************************************************************************)
(* Ledger Reader (xlsx parser).  The string functions of the code are      *)
(* tables over the strings of the model.                                   *)
(***************************************************************************)
\* The display dates that follow "Week of " in the section headers of the
\* model: those formatMeetingDateShort writes and a hand-typed long form.
DisplayDates == {"2/1/26", "2/8/26", "1/31/26", "2/7/26", "02/01/2026"}

\* value.match(WEEK_HEADER_PATTERN): the date portion, "" for no match
extractWeekDate(value) ==
  IF \E d \in DisplayDates : value = "Week of " \o d
  THEN CHOOSE d \in DisplayDates : value = "Week of " \o d
  ELSE ""

\* some SKIP_PATTERNS pattern matches the string
MatchesSkipPattern(s) ==
  s \in {"Weekly Subtotal:", "Remaining Budget:", "Remaining Budget",
         "Initial Budget", "Total", "Total Fitness",
         "Remaining Budget Committee"}

\* shouldSkipRow: the strings of columns 1 to 3 are tested
shouldSkipRow(row) ==
  \E col \in 1..3 :
    LET cellValue == GetCell(row, col)
    IN cellValue.t = "str" /\ cellValue.s # "" /\ MatchesSkipPattern(cellValue.s)

\* new Date(year, month - 1, day) of the display date, as a local calendar
\* day (two-digit years are 20xx)
LocalDayOf(dateStr) ==
  CASE dateStr = "2/1/26" -> "2026-02-01"
    [] dateStr = "02/01/2026" -> "2026-02-01"
    [] dateStr = "2/8/26" -> "2026-02-08"
    [] dateStr = "1/31/26" -> "2026-01-31"
    [] dateStr = "2/7/26" -> "2026-02-07"

\* parseWeekDateToISO: local midnight of the day, printed in UTC by
\* toISOString; east of Greenwich local midnight is still the day before
\* in UTC.
parseWeekDateToISO(dateStr) ==
  IF UtcOffsetSign(tz) > 0 THEN PreviousDay(LocalDayOf(dateStr))
  ELSE LocalDayOf(dateStr)

\* String(n) of the numbers of the model
NumberText(n) ==
  CASE n = 0 -> "0" [] n = 1 -> "1" [] n = 2 -> "2" [] n = 3 -> "3"
    [] n = 4 -> "4" [] n = 5 -> "5" [] n = 6 -> "6" [] n = 7 -> "7"
    [] n = 8 -> "8" [] n = 9 -> "9" [] n = 40 -> "40"
    [] n = 50 -> "50" [] n = 60 -> "60" [] n = 75 -> "75"
    [] n = 150 -> "150" [] n = 175 -> "175" [] n = 200 -> "200"
    [] OTHER -> "number"

\* value.trim() of the strings of the model
TrimText(s) == IF s = " Approved " THEN "Approved" ELSE s

\* value.toLowerCase() === 'approved' / 'denied', on a trimmed string
LowerCaseIs(s, word) ==
  \/ word = "approved" /\ s \in {"Approved", "approved", "APPROVED"}
  \/ word = "denied" /\ s \in {"Denied", "denied", "DENIED"}

\* parseFloat(value.replace(/[$,]/g, '')), 0 for NaN: no string of the model
\* that is read as a number starts with a digit
ParseFloatOrZero(s) == 0

\* The result stored with the formula of a cell: what the spreadsheet
\* application computed when the reviewers saved the file.  A formula
\* mergeSpreadsheet wrote since then has no result and reads as 0 / '',
\* which is also the value of the formulas of a row still undecided.
CachedResult(rows, r, c) == Evaluate(rows, Ref(ColumnLetters[c], r))

\* getCellString(worksheet.getRow(r).getCell(c))
getCellString(rows, r, c) ==
  LET value == CellAt(rows, c, r)
  IN CASE value.t = "null" -> ""
       [] value.t = "str" -> TrimText(value.s)
       [] value.t = "num" -> NumberText(value.n)
       [] value.t = "formula" ->
            LET res == CachedResult(rows, r, c)
            IN IF res.ok THEN NumberText(res.v) ELSE "[object Object]"

\* getCellNumber(worksheet.getRow(r).getCell(c))
getCellNumber(rows, r, c) ==
  LET value == CellAt(rows, c, r)
  IN CASE value.t = "null" -> 0
       [] value.t = "num" -> value.n
       [] value.t = "formula" ->
            LET res == CachedResult(rows, r, c)
            IN IF res.ok THEN res.v ELSE 0
       [] value.t = "str" -> ParseFloatOrZero(value.s)

\* the status of a row: 'Approved', 'Denied' or null
parseStatus(statusValue) ==
  IF LowerCaseIs(statusValue, "approved") THEN "Approved"
  ELSE IF LowerCaseIs(statusValue, "denied") THEN "Denied"
  ELSE "null"

\* `n || null`
OrNull(n) == IF n = 0 THEN Null ELSE Num(n)

\* no SpreadsheetRow: parseAFRRow / parseReallocationRow returned null
NoRow == [organization |-> ""]

\* parseAFRRow on row r of the sheet
parseAFRRow(rows, r) ==
  LET organization == getCellString(rows, r, 3)
  IN IF organization = "" \/ organization = "Organization" THEN NoRow
     ELSE [organization |-> organization,
           requestedAmount |-> getCellNumber(rows, r, 4),
           afterAmendments |-> OrNull(getCellNumber(rows, r, 6)),
           status |-> parseStatus(getCellString(rows, r, 7)),
           finalAmount |-> getCellNumber(rows, r, 8),
           notes |-> getCellString(rows, r, 2),
           accountNumber |-> getCellString(rows, r, 12)]

\* parseReallocationRow as it would be with the approved amount as the final
\* amount whatever the status
parseReallocationRowUnconditional(rows, r) ==
  LET organization == getCellString(rows, r, 3)
      approvedAmount == getCellNumber(rows, r, 5)
      status == parseStatus(getCellString(rows, r, 6))
  IN IF organization = "" \/ organization = "Organization" THEN NoRow
     ELSE [organization |-> organization,
           requestedAmount |-> getCellNumber(rows, r, 4),
           afterAmendments |-> OrNull(approvedAmount),
           status |-> status,
           finalAmount |-> approvedAmount,
           notes |-> getCellString(rows, r, 2),
           accountNumber |-> getCellString(rows, r, 7)]

\* parseReallocationRow on row r of the sheet
parseReallocationRow(rows, r) ==
  LET organization == getCellString(rows, r, 3)
      approvedAmount == getCellNumber(rows, r, 5)
      status == parseStatus(getCellString(rows, r, 6))
  IN IF organization = "" \/ organization = "Organization" THEN NoRow
     ELSE [organization |-> organization,
           requestedAmount |-> getCellNumber(rows, r, 4),
           afterAmendments |-> OrNull(approvedAmount),
           status |-> status,
           finalAmount |-> IF status = "Approved" THEN approvedAmount ELSE 0,
           notes |-> getCellString(rows, r, 2),
           accountNumber |-> getCellString(rows, r, 7)]

\* A Map from week date to rows, in insertion order.
MapHas(weekMap, date) == \E i \in DOMAIN weekMap : weekMap[i].date = date

MapGet(weekMap, date) ==
  IF MapHas(weekMap, date)
  THEN weekMap[CHOOSE i \in DOMAIN weekMap : weekMap[i].date = date].rows
  ELSE << >>

MapKeys(weekMap) == [i \in DOMAIN weekMap |-> weekMap[i].date]

\* A scan that would start a new list at every week header, also for a
\* date it has met before.
RowStepNewListPerHeader(rows, r, isAFR, scan) ==
  LET weekDate == extractWeekDate(getCellString(rows, r, 1))
      parsedRow == IF isAFR THEN parseAFRRow(rows, r)
                   ELSE parseReallocationRow(rows, r)
      others == SelectSeq(scan.weekMap, LAMBDA e : e.date # weekDate)
  IN IF weekDate # ""
     THEN [currentWeekDate |-> weekDate,
           weekMap |-> Append(others, [date |-> weekDate, rows |-> << >>])]
     ELSE IF shouldSkipRow(rows[r]) \/ scan.currentWeekDate = ""
             \/ parsedRow.organization = ""
     THEN scan
     ELSE [scan EXCEPT !.weekMap =
             [i \in DOMAIN scan.weekMap |->
                IF scan.weekMap[i].date = scan.currentWeekDate
                THEN [scan.weekMap[i] EXCEPT !.rows = Append(@, parsedRow)]
                ELSE scan.weekMap[i]]]

\* parseWorksheet: the rows of the sheet in order (eachRow passes over rows
\* without values, which would be parsed to null anyway), with the active
\* week date ("": none yet).  scan holds currentWeekDate and weekMap as
\* they are after the rows before r.
RowStep(rows, r, isAFR, scan) ==
  LET weekDate == extractWeekDate(getCellString(rows, r, 1))
      parsedRow == IF isAFR THEN parseAFRRow(rows, r)
                   ELSE parseReallocationRow(rows, r)
  IN IF weekDate # ""
     THEN [currentWeekDate |-> weekDate,
           weekMap |-> IF MapHas(scan.weekMap, weekDate) THEN scan.weekMap
                       ELSE Append(scan.weekMap, [date |-> weekDate, rows |-> << >>])]
     ELSE IF shouldSkipRow(rows[r]) \/ scan.currentWeekDate = ""
             \/ parsedRow.organization = ""
     THEN scan
     ELSE [scan EXCEPT !.weekMap =
             [i \in DOMAIN scan.weekMap |->
                IF scan.weekMap[i].date = scan.currentWeekDate
                THEN [scan.weekMap[i] EXCEPT !.rows = Append(@, parsedRow)]
                ELSE scan.weekMap[i]]]

RECURSIVE eachRow(_, _, _, _)
eachRow(rows, r, isAFR, scan) ==
  IF r > Len(rows) THEN scan.weekMap
  ELSE CHOOSE weekMap \in {eachRow(rows, r + 1, isAFR, next) :
                             next \in {RowStep(rows, r, isAFR, scan)}} : TRUE

parseWorksheet(rows, isAFR) ==
  eachRow(rows, 1, isAFR, [currentWeekDate |-> "", weekMap |-> << >>])

\* the Reader's AFR sheet: by name, else the sheet with id 1; 0 if none
readerAFRWorksheet(sheets) ==
  IF getWorksheet(sheets, "AFR Requests") # 0
  THEN getWorksheet(sheets, "AFR Requests")
  ELSE IF getWorksheet(sheets, "AFR") # 0 THEN getWorksheet(sheets, "AFR")
  ELSE IF getWorksheet(sheets, "Sunday Meeting") # 0
  THEN getWorksheet(sheets, "Sunday Meeting")
  ELSE getWorksheetById(sheets, 1)

\* the Reader's Reallocation sheet: by name; 0 if none
readerReallocationWorksheet(sheets) ==
  IF getWorksheet(sheets, "Reallocation Requests") # 0
  THEN getWorksheet(sheets, "Reallocation Requests")
  ELSE getWorksheet(sheets, "Reallocation")

\* new Set([...afrWeeks.keys(), ...reallocationWeeks.keys()]), in order:
\* the first occurrence of every key
Distinct(keys) ==
  LET first == {i \in DOMAIN keys : \A j \in 1..(i - 1) : keys[j] # keys[i]}
  IN [n \in 1..Cardinality(first) |->
        keys[CHOOSE i \in first : Cardinality({j \in first : j <= i}) = n]]

\* a.localeCompare(b) < 0 on ISO dates: a is the earlier day
IsoBefore(a, b) == DayNumber(a) < DayNumber(b)

\* weeks.sort((a, b) => b.dateISO.localeCompare(a.dateISO)): a stable sort,
\* most recent first; week i comes after the later weeks and after the
\* weeks of its day that precede it
sortWeeks(weeks) ==
  LET place(i) ==
        1 + Cardinality({j \in DOMAIN weeks :
                           \/ IsoBefore(weeks[i].dateISO, weeks[j].dateISO)
                           \/ weeks[j].dateISO = weeks[i].dateISO /\ j < i})
  IN [n \in DOMAIN weeks |-> weeks[CHOOSE i \in DOMAIN weeks : place(i) = n]]

AllRequests(week) == week.afrRequests \o week.reallocationRequests

\* A filter that would look at the Pool-Tracked rows of the week only.
MissingStatusOfAFRRows(week) == SelectSeq(week.afrRequests, LAMBDA r : r.status = "null")

MissingStatus(week) == SelectSeq(AllRequests(week), LAMBDA r : r.status = "null")

\* `Week of ${week.date}: ${n} request(s) have no status set.`
StatusWarning(week) == [week |-> week.date, missing |-> Len(MissingStatus(week))]

ParseResult(weeks, warnings, errors) ==
  [kind |-> "result", weeks |-> weeks, warnings |-> warnings, errors |-> errors]

\* "Build ParsedWeek objects": one week per key of the two Maps
buildWeeks(afrWeeks, reallocationWeeks) ==
  LET allWeekDates == Distinct(MapKeys(afrWeeks) \o MapKeys(reallocationWeeks))
  IN [i \in DOMAIN allWeekDates |->
        [date |-> allWeekDates[i],
         dateISO |-> parseWeekDateToISO(allWeekDates[i]),
         afrRequests |-> MapGet(afrWeeks, allWeekDates[i]),
         reallocationRequests |-> MapGet(reallocationWeeks, allWeekDates[i])]]

\* "Add warnings for weeks with no status set", on the sorted weeks
statusWarnings(weeks) ==
  LET unset == SelectSeq(weeks, LAMBDA w : Len(MissingStatus(w)) > 0)
  IN [i \in DOMAIN unset |-> StatusWarning(unset[i])]

\* A test that would never report an empty set of week dates.
allWeekDatesNeverEmpty(weeks) == FALSE

\* allWeekDates.size === 0: no key in either Map, so no week was built
allWeekDatesEmpty(weeks) == weeks = << >>

\* parseWeeklySpreadsheet(buffer) on the file d.  The Maps of the two
\* sheets, the weeks built from them and the sorted weeks are each computed
\* once and handed on as values.
parseWeeklySpreadsheet(d) ==
  IF d.kind # "wb"
  THEN ParseResult(<< >>, << >>, <<"Failed to parse spreadsheet">>)
  ELSE IF readerAFRWorksheet(d.sheets) = 0
  THEN ParseResult(<< >>, << >>, <<"Could not find AFR worksheet in the spreadsheet.">>)
  ELSE
  CHOOSE res \in
    { IF allWeekDatesEmpty(weeks)
      THEN ParseResult(<< >>, << >>, <<"No weeks found in the spreadsheet.">>)
      ELSE ParseResult(weeks, statusWarnings(weeks), << >>) :
      weeks \in
        { sortWeeks(unsorted) :
          unsorted \in
            { buildWeeks(afrWeeks, reallocationWeeks) :
              afrWeeks \in
                {parseWorksheet(d.sheets[readerAFRWorksheet(d.sheets)].rows, TRUE)},
              reallocationWeeks \in
                {IF readerReallocationWorksheet(d.sheets) # 0
                 THEN parseWorksheet(
                        d.sheets[readerReallocationWorksheet(d.sheets)].rows, FALSE)
                 ELSE << >>} } } } : TRUE

\* getWeekSummaries
getWeekSummaries(weeks) ==
  [i \in DOMAIN weeks |->
     [date |-> weeks[i].date,
      dateISO |-> weeks[i].dateISO,
      requestCount |-> Len(AllRequests(weeks[i])),
      approvedCount |->
        Len(SelectSeq(AllRequests(weeks[i]), LAMBDA r : r.status = "Approved")),
      deniedCount |->
        Len(SelectSeq(AllRequests(weeks[i]), LAMBDA r : r.status = "Denied")),
      afrCount |-> Len(weeks[i].afrRequests),
      reallocationCount |-> Len(weeks[i].reallocationRequests)]]

\* no ParsedWeek: findWeekByDate returned undefined
NoWeek == [date |-> "", dateISO |-> ""]

\* findWeekByDate: the first week whose date or dateISO is the argument
findWeekByDate(weeks, date) ==
  IF \E i \in DOMAIN weeks : weeks[i].date = date \/ weeks[i].dateISO = date
  THEN weeks[CHOOSE i \in DOMAIN weeks :
               /\ weeks[i].date = date \/ weeks[i].dateISO = date
               /\ \A j \in 1..(i - 1) :
                    weeks[j].date # date /\ weeks[j].dateISO # date]
  ELSE NoWeek

(***************************************************************************)
(* From the rows of a week to the requests of the presentation.            *)
(***************************************************************************)
\* the organizations of the CSV rows of the model
CsvOrganizations == {"SGA", "Chess", "Dance", "Robotics", "Band"}

RECURSIVE Characters(_)
\* The characters of the strings found in the Notes column and of the
\* organization names of the model.
Characters(s) ==
  CASE s = "" -> << >>
    [] s = "Parts" -> <<"P", "a", "r", "t", "s">>
    [] s = "Budget Review: Shoes" -> <<"B", "u", "d", "g", "e", "t", " ", "R", "e", "v", "i", "e", "w", ":", " ", "S", "h", "o", "e", "s">>
    [] s = "Dance 2" -> <<"D", "a", "n", "c", "e", " ", "2">>
    [] s = "SGA 1" -> <<"S", "G", "A", " ", "1">>
    [] s = "Notes" -> <<"N", "o", "t", "e", "s">>
    [] s = "SGA" -> <<"S", "G", "A">>
    [] s = "Chess" -> <<"C", "h", "e", "s", "s">>
    [] s = "Dance" -> <<"D", "a", "n", "c", "e">>
    [] s = "Robotics" -> <<"R", "o", "b", "o", "t", "i", "c", "s">>
    [] s = "Band" -> <<"B", "a", "n", "d">>
    [] OTHER ->
         LET name == CHOOSE name \in CsvOrganizations :
                       \E n \in 1..9 : s = name \o " " \o NumberText(n)
             n == CHOOSE n \in 1..9 : s = name \o " " \o NumberText(n)
         IN Characters(name) \o <<" ">> \o NumberToString(n)

\* the string of a sequence of characters: an organization name of the CSV
\* rows of the model, numbered or not
StringOf(chars) ==
  IF \E name \in CsvOrganizations : Characters(name) = chars
  THEN CHOOSE name \in CsvOrganizations : Characters(name) = chars
  ELSE LET name == CHOOSE name \in CsvOrganizations :
                     \E n \in 1..9 :
                       chars = Characters(name) \o <<" ">> \o NumberToString(n)
           n == CHOOSE n \in 1..9 :
                  chars = Characters(name) \o <<" ">> \o NumberToString(n)
       IN name \o " " \o NumberText(n)

\* characters `.` does not match
LineTerminators == {"\n"}

\* the tags of /^(Auto-Approve|Budget Review):\s*(.*)$/i, in lower case
PreApprovedTags ==
  {<<"a", "u", "t", "o", "-", "a", "p", "p", "r", "o", "v", "e">>,
   <<"b", "u", "d", "g", "e", "t", " ", "r", "e", "v", "i", "e", "w">>}

SundayMeeting == <<"S", "u", "n", "d", "a", "y", " ", "M", "e", "e", "t", "i", "n", "g">>

\* the lengths n for which the first n characters are a tag, whatever the
\* case of its letters, followed by a colon
TagLengths(notes) ==
  {n \in 1..Len(notes) :
     /\ toLowerCase(SubSeq(notes, 1, n)) \in PreApprovedTags
     /\ n < Len(notes)
     /\ notes[n + 1] = ":"}

\* notes.match(...): \s* takes all the white space after the colon, and
\* (.*)$ has to take the rest, which it does if no line ends in it
preApprovedMatch(notes) ==
  IF TagLengths(notes) = {} THEN [matched |-> FALSE]
  ELSE LET n == CHOOSE n \in TagLengths(notes) : TRUE
           rest == trimStart(SubSeq(notes, n + 2, Len(notes)))
       IN IF \E i \in DOMAIN rest : rest[i] \in LineTerminators
          THEN [matched |-> FALSE]
          ELSE [matched |-> TRUE, tag |-> SubSeq(notes, 1, n), rest |-> rest]

\* parseNotesColumn
parseNotesColumn(notes) ==
  IF notes = << >>
  THEN [financeRoute |-> SundayMeeting, description |-> << >>]
  ELSE IF preApprovedMatch(notes).matched
  THEN [financeRoute |-> preApprovedMatch(notes).tag,
        description |-> trim(preApprovedMatch(notes).rest)]
  ELSE [financeRoute |-> SundayMeeting, description |-> trim(notes)]

\* no PresentationRequest: rowToPresentationRequest returned null
NoRequest == [status |-> "null"]

\* `row.finalAmount || row.afterAmendments || 0`
FinalOrAmended(row) ==
  IF row.finalAmount # 0 THEN row.finalAmount
  ELSE IF row.afterAmendments.t = "num" THEN row.afterAmendments.n
  ELSE 0

\* rowToPresentationRequest
rowToPresentationRequest(row, requestType) ==
  IF row.status = "null" THEN NoRequest
  ELSE [organizationName |-> row.organization,
        displayName |-> row.organization,
        requestedAmount |-> row.requestedAmount,
        finalAmount |-> IF row.status = "Approved" THEN FinalOrAmended(row) ELSE 0,
        status |-> row.status,
        description |-> parseNotesColumn(Characters(row.notes)).description,
        financeRoute |-> parseNotesColumn(Characters(row.notes)).financeRoute,
        requestType |-> requestType,
        wasAmended |-> FinalOrAmended(row) # row.requestedAmount,
        accountNumber |-> row.accountNumber]

\* A conversion that would keep the rows without status as well.
presentationRequestsOfAllRows(rows, requestType) ==
  [i \in DOMAIN rows |->
     rowToPresentationRequest(
       IF rows[i].status = "null" THEN [rows[i] EXCEPT !.status = "Denied"]
       ELSE rows[i], requestType)]

\* the loop of getWeekPresentationRequests over one list of rows: the
\* requests of the rows that have one, in order
presentationRequestsOf(rows, requestType) ==
  LET converted == [i \in DOMAIN rows |-> rowToPresentationRequest(rows[i], requestType)]
  IN SelectSeq(converted, LAMBDA request : request # NoRequest)

\* getWeekPresentationRequests
getWeekPresentationRequests(week) ==
  presentationRequestsOf(week.afrRequests, "AFR")
    \o presentationRequestsOf(week.reallocationRequests, "Reallocation")

\* The responses of POST /api/generate-pptx-from-xlsx, kept with the
\* weekDate of the request: the status, the error and, for 200, the
\* requests handed to the slide generator.
Rejected(weekDate, error) ==
  [weekDate |-> weekDate, status |-> 400, error |-> error, requests |-> << >>]

generatePptxFromXlsx(d, weekDate) ==
  IF weekDate = "" THEN Rejected(weekDate, "Week date is required")
  ELSE CHOOSE res \in
    { IF parseResult.errors # << >>
      THEN Rejected(weekDate, "Failed to parse spreadsheet")
      ELSE IF findWeekByDate(parseResult.weeks, weekDate) = NoWeek
      THEN Rejected(weekDate, "Week not found in the spreadsheet")
      ELSE IF getWeekPresentationRequests(findWeekByDate(parseResult.weeks, weekDate)) = << >>
      THEN Rejected(weekDate, "No requests with a status (Approved/Denied) found")
      ELSE [weekDate |-> weekDate, status |-> 200, error |-> "",
            requests |->
              getWeekPresentationRequests(findWeekByDate(parseResult.weeks, weekDate))] :
      parseResult \in {parseWeeklySpreadsheet(d)} } : TRUE

(***************************************************************************)
(* The merge pipeline of POST /api/merge-spreadsheet: parseCSV,            *)
(* validateCSVForSpreadsheet, applyOrgNumbering, mergeSpreadsheet.  A CSV   *)
(* is the sequence of its data rows, each a record of the trimmed column   *)
(* values; every row has a submission id and an organization name.         *)
(***************************************************************************)
CsvRow(org, type, status, route, amount, account) ==
  [organizationName |-> org, requestType |-> type, approvalStatus |-> status,
   financeReview |-> route, amount |-> amount, description |-> "Supplies",
   accountNumber |-> account]

\* The rows of the exports of the model: pending and pre-approved requests
\* of both types, a denied one, and a late one, which the export routes to
\* 'Finance Review'.
CsvRows ==
  { CsvRow("SGA", "AFR", "Pending Approval", "Sunday Meeting", 200, "A-100"),
    CsvRow("Chess", "AFR", "Approved", "Auto-Approve", 75, "A-200"),
    CsvRow("Dance", "Reallocation", "Approved", "Budget Review", 60, "R-400"),
    CsvRow("Robotics", "AFR", "Denied", "Sunday Meeting", 150, "A-300"),
    CsvRow("Band", "AFR", "Pending Approval", "Finance Review", 40, "A-500") }

\* normalizeApprovalStatus, on the trimmed value
normalizeApprovalStatus(value) ==
  IF value \in {"Approved", "approved"} THEN "Approved"
  ELSE IF value \in {"Pending Approval", "pending approval", "Pending", "pending"}
  THEN "Pending Approval"
  ELSE IF value \in {"Denied", "denied", "Rejected", "rejected"} THEN "Denied"
  ELSE "Pending Approval"

\* normalizeFinanceRoute, on the trimmed value: every value that is none of
\* the three routes becomes 'Sunday Meeting'
normalizeFinanceRoute(value) ==
  IF value \in {"Auto-Approve", "auto-approve", "Auto Approve", "AutoApprove"}
  THEN "Auto-Approve"
  ELSE IF value \in {"Budget Review", "budget review"} THEN "Budget Review"
  ELSE IF value \in {"Sunday Meeting", "sunday meeting"} THEN "Sunday Meeting"
  ELSE "Sunday Meeting"

\* normalizeRequestType
normalizeRequestType(value) ==
  IF value \in {"Reallocation", "reallocation", "Rellocation"} THEN "Reallocation"
  ELSE "AFR"

\* No value: the property of the object is undefined.
Undefined == ""

\* parseRow on row i of the data: the BudgetRequest; displayName,
\* rawFinanceRoute and isPreApproved are not set
parseRow(row, i) ==
  [submissionId |-> i,
   organizationName |-> row.organizationName,
   displayName |-> Undefined,
   requestType |-> normalizeRequestType(row.requestType),
   amount |-> row.amount,
   description |-> row.description,
   approvalStatus |-> normalizeApprovalStatus(row.approvalStatus),
   financeRoute |-> normalizeFinanceRoute(row.financeReview),
   rawFinanceRoute |-> Undefined,
   accountNumber |-> row.accountNumber,
   isPreApproved |-> FALSE]

\* number of requests with the approval status
StatusTotal(requests, status) ==
  Cardinality({i \in DOMAIN requests : requests[i].approvalStatus = status})

\* validateCSV: the errors (every status is one of the three after parseRow)
validateCSV(requests) ==
  IF requests = << >> THEN <<"No budget requests to validate">>
  ELSE IF StatusTotal(requests, "Approved") = 0
          /\ StatusTotal(requests, "Pending Approval") = 0
  THEN <<"CSV contains only denied requests. Nothing to generate.">>
  ELSE << >>

\* parseCSV: the requests and the errors
parseCSV(rows) ==
  LET requests == [i \in DOMAIN rows |-> parseRow(rows[i], i)]
  IN IF requests = << >>
     THEN [requests |-> << >>, errors |-> <<"No valid budget requests found in CSV">>]
     ELSE [requests |-> requests, errors |-> validateCSV(requests)]

IsDenied(r) == r.approvalStatus = "Denied"

IsFinanceReview(r) ==
  r.rawFinanceRoute = "Finance Review" \/ r.financeRoute = "Finance Review"

\* "Mark pre-approved requests"
markPreApproved(r) ==
  IF r.approvalStatus = "Approved" /\ r.financeRoute \in {"Auto-Approve", "Budget Review"}
  THEN [r EXCEPT !.isPreApproved = TRUE]
  ELSE r

\* The warnings of validateCSVForSpreadsheet: what a message is about, and
\* the count or the request it names.
Warning(about, n) == [about |-> about, n |-> n]

requestWarnings(requests, i) ==
  (IF requests[i].amount = 0 THEN <<Warning("amount", i)>> ELSE << >>)
    \o (IF requests[i].accountNumber \in {"", "#"}
        THEN <<Warning("account", i)>> ELSE << >>)

RECURSIVE validateRequests(_, _)
validateRequests(requests, i) ==
  IF i > Len(requests) THEN << >>
  ELSE requestWarnings(requests, i) \o validateRequests(requests, i + 1)

\* validateCSVForSpreadsheet
validateCSVForSpreadsheet(requests) ==
  LET denied == Len(SelectSeq(requests, IsDenied))
      financeReview == Len(SelectSeq(requests, IsFinanceReview))
      kept == SelectSeq(requests, LAMBDA r : ~IsDenied(r) /\ ~IsFinanceReview(r))
      filteredRequests == [i \in DOMAIN kept |-> markPreApproved(kept[i])]
      preApproved == Len(SelectSeq(filteredRequests, LAMBDA r : r.isPreApproved))
      excluded ==
        (IF denied > 0 THEN <<Warning("denied", denied)>> ELSE << >>)
          \o (IF financeReview > 0 THEN <<Warning("financeReview", financeReview)>>
              ELSE << >>)
      excludedCount == [denied |-> denied, financeReview |-> financeReview]
  IN IF requests = << >>
     THEN [warnings |-> << >>, errors |-> <<"No budget requests to validate">>,
           filteredRequests |-> << >>,
           excludedCount |-> [denied |-> 0, financeReview |-> 0]]
     ELSE IF filteredRequests = << >>
     THEN [warnings |-> excluded,
           errors |-> <<"No valid requests remaining after filtering out denied and late submissions.">>,
           filteredRequests |-> << >>, excludedCount |-> excludedCount]
     ELSE [warnings |->
             excluded
               \o (IF preApproved > 0 THEN <<Warning("preApproved", preApproved)>>
                   ELSE << >>)
               \o validateRequests(filteredRequests, 1),
           errors |-> << >>,
           filteredRequests |-> filteredRequests, excludedCount |-> excludedCount]

\* applyOrgNumbering on the requests of the pipeline, whose names are strings
numberedRequests(requests) ==
  LET numberedNames ==
        applyOrgNumbering(
          [i \in DOMAIN requests |->
             [submissionId |-> i,
              organizationName |-> Characters(requests[i].organizationName)]])
  IN [i \in DOMAIN requests |->
        [requests[i] EXCEPT !.organizationName =
           StringOf(numberedNames[i].organizationName)]]

\* POST /api/merge-spreadsheet on the CSV, the master file and the meeting
\* date of the form: the response (status, the X-SGA-Warnings and
\* X-SGA-Excluded headers or the fields of the JSON body) and the call of
\* mergeSpreadsheet it made, if any
NoExclusions == [denied |-> 0, financeReview |-> 0]

MergeResponse(status, warnings, excluded) ==
  [status |-> status, warnings |-> warnings, excluded |-> excluded]

mergeSpreadsheetRoute(rows, masterDoc, md) ==
  LET parseResult == parseCSV(rows)
      validationResult == validateCSVForSpreadsheet(parseResult.requests)
      requests == numberedRequests(validationResult.filteredRequests)
      merged == mergeSpreadsheet(masterDoc, requests, md)
  IN IF parseResult.errors # << >>
     THEN [response |-> MergeResponse(400, << >>, NoExclusions), called |-> FALSE]
     ELSE IF validationResult.errors # << >>
     THEN [response |-> MergeResponse(400, validationResult.warnings,
                                      validationResult.excludedCount),
           called |-> FALSE]
     ELSE [response |->
             MergeResponse(IF merged.result = "ok" THEN 200 ELSE 500,
                           IF merged.result = "ok" THEN validationResult.warnings
                           ELSE << >>,
                           IF merged.result = "ok" THEN validationResult.excludedCount
                           ELSE NoExclusions),
           called |-> TRUE, requests |-> requests, merged |-> merged]

(***************************************************************************)
(* The state machine.  doc is the ledger file the user holds; master,      *)
(* batch, meetingDate and result are the arguments and the outcome of the  *)
(* last mergeSpreadsheet call (result = "none": the last step was no       *)
(* merge); origin says how the ledger came into existence.  submitted and  *)
(* numbered are the argument and the result of the last applyOrgNumbering  *)
(* call, parsed the result of parseWeeklySpreadsheet on the present doc    *)
(* (NotParsed: not read since it last changed), tz the time zone of the    *)
(* process (UTC on the hosting platform).                                  *)
(***************************************************************************)
NotParsed == [kind |-> "none"]

\* no presentation was asked for since the ledger last changed
NoResponse == [status |-> 0]

\* parseNotesColumn was not called yet
NotDecoded == [financeRoute |-> << >>]

\* no CSV export was uploaded yet
NotUploaded == [kind |-> "none"]

WriterInit ==
  /\ doc = NoDoc
  /\ master = NoDoc
  /\ batch = << >>
  /\ meetingDate = ""
  /\ result = "none"
  /\ origin = "none"
  /\ merges = 0

Init ==
  /\ WriterInit
  /\ submitted = << >>
  /\ numbered = << >>
  /\ parsed = NotParsed
  /\ tz = "UTC"
  /\ response = NoResponse
  /\ uploaded = NotUploaded
  /\ note = << >>
  /\ decoded = NotDecoded

NoCall ==
  /\ master' = NoDoc
  /\ batch' = << >>
  /\ meetingDate' = ""
  /\ result' = "none"

\* A step of the Writer or of a reviewer: the allocator's last call and the
\* time zone stay, a parse result of the earlier file is no longer held.
NoRead ==
  /\ parsed' = NotParsed
  /\ response' = NoResponse
  /\ UNCHANGED <<submitted, numbered, tz, uploaded, note, decoded>>

CreateMaster ==
  /\ origin = "none"
  /\ \E b \in StartingBudgets :
       doc' = generateMasterSpreadsheet("Spring 2026", b)
  /\ origin' = "master"
  /\ NoCall
  /\ NoRead
  /\ UNCHANGED merges

UploadForeign ==
  /\ origin = "none"
  /\ \E d \in ForeignDocs : doc' = d
  /\ origin' = "foreign"
  /\ NoCall
  /\ NoRead
  /\ UNCHANGED merges

Merge ==
  /\ merges < MaxMerges
  /\ \E b \in Batches, md \in MeetingDates :
       LET r == mergeSpreadsheet(doc, b, md)
       IN /\ doc' = r.doc
          /\ result' = r.result
          /\ batch' = b
          /\ meetingDate' = md
  /\ master' = doc
  /\ origin' = IF origin = "none" THEN "fresh" ELSE origin
  /\ merges' = merges + 1
  /\ NoRead

Review ==
  /\ doc.kind = "wb"
  /\ HasUndecided(doc.sheets)
  /\ \E p \in Policies : doc' = Workbook(ReviewSheets(doc.sheets, p))
  /\ NoCall
  /\ NoRead
  /\ UNCHANGED <<origin, merges>>

Next == CreateMaster \/ UploadForeign \/ Merge \/ Review

Spec == Init /\ [][Next]_vars

(***************************************************************************)
(* The allocator alone: a sequence of applyOrgNumbering calls, each on a   *)
(* batch of its own: the empty batch, or the batch of the call before with *)
(* one more record, so that every batch of up to MaxBatchLen records is    *)
(* the argument of some call and every call but the first follows others.  *)
(***************************************************************************)
ledgerVars == <<doc, master, batch, meetingDate, result, origin, merges, parsed, tz, response, uploaded, note, decoded>>

AllocateEmpty ==
  /\ submitted' = << >>
  /\ numbered' = applyOrgNumbering(<< >>)
  /\ UNCHANGED ledgerVars

AllocateLonger ==
  /\ Len(submitted) < MaxBatchLen
  /\ \E name \in OrganizationNames :
       /\ submitted' = ToRequests(Append(OrganizationNamesOf(submitted), name))
       /\ numbered' = applyOrgNumbering(submitted')
  /\ UNCHANGED ledgerVars

AllocNext == AllocateEmpty \/ AllocateLonger

AllocSpec == Init /\ [][AllocNext]_vars

(***************************************************************************)
(* Writer, reviewers and Reader together: ledgers are created, uploaded,   *)
(* merged into and reviewed as above, in any time zone, and the present    *)
(* file is read back by parseWeeklySpreadsheet.                            *)
(***************************************************************************)
MaxReadMerges == 2

\* The batches merged before reading: one Pool-Tracked record, two of them,
\* both categories, Simple records only.
WeekBatches ==
  { <<ReqSGA>>,
    <<ReqChess, ReqSGA>>,
    <<ReqChess, ReqRobotics>>,
    <<ReqRobotics, ReqDance>> }

WeekDates == {"2026-02-01", "2026-02-08"}

\* A ledger kept by hand: the Pool-Tracked sheet of an initialized ledger
\* with one decided section, and a Simple sheet in the layout of
\* generateMasterSpreadsheet to which a section was typed: a "Week of" row,
\* an approved row, an undecided one and a denied one that keeps the amount
\* entered for it.
KeptAFRRows ==
  LET merged == mergeAFRSection(createAFRSheet("Fall 2025", 1000),
                                <<ReqChess, ReqSGA>>, "2/1/26")
  IN [r \in 1..Len(merged) |-> ReviewRow(merged[r], r, "amendOrDeny")]

KeptReallocationRows(dateText) ==
  createReallocationSheet("Fall 2025") \o
  <<Row(<<Str("Week of " \o dateText)>>),
    Row(<<Str(dateText), Str("Budget Review: Shoes"), Str("Dance 2"), Num(60),
          Num(60), Str(" Approved "), Str("R-400")>>),
    Row(<<Str(""), Str("Parts"), Str("Robotics"), Num(150), Null, Str(""),
          Str("R-300")>>),
    Row(<<Str(""), Str("Notes"), Str("Band"), Num(40), Num(40), Str("Denied"),
          Str("R-500")>>)>>

KeptLedgers ==
  { Workbook(<<Sheet(1, "AFR Requests", KeptAFRRows),
               Sheet(2, "Reallocation Requests", KeptReallocationRows("2/1/26"))>>),
    Workbook(<<Sheet(1, "AFR Requests", KeptAFRRows),
               Sheet(2, "Reallocation Requests", KeptReallocationRows("02/01/2026"))>>),
    Workbook(<<Sheet(2, "Reallocation Requests", KeptReallocationRows("2/1/26"))>>),
    Workbook(<<Sheet(2, "Reallocation Requests",
                     createReallocationSheet("Fall 2025"))>>) }

ReadInit ==
  /\ WriterInit
  /\ submitted = << >>
  /\ numbered = << >>
  /\ parsed = NotParsed
  /\ tz \in TimeZones
  /\ response = NoResponse
  /\ uploaded = NotUploaded
  /\ note = << >>
  /\ decoded = NotDecoded

UploadKept ==
  /\ origin = "none"
  /\ \E d \in KeptLedgers : doc' = d
  /\ origin' = "kept"
  /\ NoCall
  /\ NoRead
  /\ UNCHANGED merges

MergeWeek ==
  /\ merges < MaxReadMerges
  /\ \E b \in WeekBatches, md \in WeekDates :
       LET r == mergeSpreadsheet(doc, b, md)
       IN /\ doc' = r.doc
          /\ result' = r.result
          /\ batch' = b
          /\ meetingDate' = md
  /\ master' = doc
  /\ origin' = IF origin = "none" THEN "fresh" ELSE origin
  /\ merges' = merges + 1
  /\ NoRead

\* The parse route: the uploaded file is read; nothing else changes.
Parse ==
  /\ doc.kind # "none"
  /\ parsed = NotParsed
  /\ parsed' = parseWeeklySpreadsheet(doc)
  /\ UNCHANGED <<doc, master, batch, meetingDate, result, origin, merges, submitted, numbered, tz, response, uploaded, note, decoded>>

ReadNext == CreateMaster \/ UploadForeign \/ UploadKept \/ MergeWeek \/ Review \/ Parse

ReadSpec == ReadInit /\ [][ReadNext]_vars

(***************************************************************************)
(* The presentation of a week: a ledger is uploaded or merged, reviewed,   *)
(* and the slides of one of its weeks are asked for.                       *)
(***************************************************************************)
MaxSlideMerges == 1

\* the weekDate form field: absent, a display date, an ISO date
RequestedWeeks == {"", "2/1/26", "2026-02-01", "2/8/26"}

MergeForSlides ==
  /\ merges < MaxSlideMerges
  /\ \E b \in WeekBatches, md \in WeekDates :
       LET r == mergeSpreadsheet(doc, b, md)
       IN /\ doc' = r.doc
          /\ result' = r.result
          /\ batch' = b
          /\ meetingDate' = md
  /\ master' = doc
  /\ origin' = IF origin = "none" THEN "fresh" ELSE origin
  /\ merges' = merges + 1
  /\ NoRead

Generate ==
  /\ doc.kind # "none"
  /\ response = NoResponse
  /\ \E weekDate \in RequestedWeeks : response' = generatePptxFromXlsx(doc, weekDate)
  /\ UNCHANGED <<doc, master, batch, meetingDate, result, origin, merges, submitted, numbered, parsed, tz, uploaded, note, decoded>>

SlideNext == UploadKept \/ MergeForSlides \/ Review \/ Generate

SlideSpec == Init /\ [][SlideNext]_vars

(***************************************************************************)
(* The merge pipeline: the rows of a CSV export are put together, and the  *)
(* export is posted, with no master or with an initialized one.            *)
(***************************************************************************)
MaxCsvRows == 3

\* the rows of the CSV put together so far
CsvOf(u) == IF u = NotUploaded THEN << >> ELSE u.rows

AddCsvRow ==
  /\ response = NoResponse
  /\ Len(CsvOf(uploaded)) < MaxCsvRows
  /\ \E row \in CsvRows : uploaded' = [kind |-> "csv", rows |-> Append(CsvOf(uploaded), row)]
  /\ UNCHANGED <<doc, master, batch, meetingDate, result, origin, merges, submitted, numbered, parsed, tz, response, note, decoded>>

MergeCsv ==
  /\ response = NoResponse
  /\ uploaded # NotUploaded
  /\ \E md \in MeetingDates :
       LET r == mergeSpreadsheetRoute(uploaded.rows, doc, md)
       IN /\ response' = r.response
          /\ IF r.called
             THEN /\ doc' = r.merged.doc
                  /\ result' = r.merged.result
                  /\ batch' = r.requests
                  /\ meetingDate' = md
                  /\ master' = doc
                  /\ merges' = merges + 1
                  /\ origin' = IF origin = "none" THEN "fresh" ELSE origin
             ELSE /\ NoCall
                  /\ UNCHANGED <<doc, merges, origin>>
  /\ UNCHANGED <<submitted, numbered, parsed, tz, uploaded, note, decoded>>

PipeNext == AddCsvRow \/ CreateMaster \/ MergeCsv

PipeSpec == Init /\ [][PipeNext]_vars

(***************************************************************************)
(* parseNotesColumn alone: a note is typed piece by piece and decoded.     *)
(***************************************************************************)
MaxNoteParts == 4

\* the pieces notes are made of: the two tags as the Writer spells them, a
\* tag in lower case, a word that is no tag, the colon without and with the
\* space after it, white space, a word of a description and a second line
NoteParts ==
  {<<"A", "u", "t", "o", "-", "A", "p", "p", "r", "o", "v", "e">>,
   <<"B", "u", "d", "g", "e", "t", " ", "R", "e", "v", "i", "e", "w">>,
   <<"b", "u", "d", "g", "e", "t", " ", "r", "e", "v", "i", "e", "w">>,
   <<"L", "a", "t", "e">>,
   <<":">>,
   <<":", " ">>,
   <<" ">>,
   <<"S", "n", "a", "c", "k", "s">>,
   <<"\n", "D", "r", "i", "n", "k", "s">>}

\* the string the pieces make
RECURSIVE NoteText(_)
NoteText(parts) ==
  IF parts = << >> THEN << >> ELSE Head(parts) \o NoteText(Tail(parts))

TypeNote ==
  /\ decoded = NotDecoded
  /\ Len(note) < MaxNoteParts
  /\ \E part \in NoteParts : note' = Append(note, part)
  /\ UNCHANGED <<doc, master, batch, meetingDate, result, origin, merges, submitted, numbered, parsed, tz, response, uploaded, decoded>>

DecodeNote ==
  /\ decoded = NotDecoded
  /\ decoded' = parseNotesColumn(NoteText(note))
  /\ UNCHANGED <<doc, master, batch, meetingDate, result, origin, merges, submitted, numbered, parsed, tz, response, uploaded, note>>

NotesNext == TypeNote \/ DecodeNote

NotesSpec == Init /\ [][NotesNext]_vars

(***************************************************************************)
(* The round trip of Pool-Tracked sections: batches are merged with every  *)
(* kind of meetingDate option and for organizations of any name, decisions *)
(* are entered, and the file is read back.                                 *)
(***************************************************************************)
MaxRoundMerges == 2

\* options.meetingDate: absent, an ISO date, a text new Date() cannot parse
MeetingDateOptions == {"", "2026-02-01", "next Sunday"}

RoundBatches ==
  { <<ReqSGA>>,
    <<ReqChess, ReqSGA>>,
    <<ReqTotalFitness, ReqSGA>>,
    <<ReqSGA, ReqBudgetCommittee, ReqRobotics>> }

MergeRound ==
  /\ merges < MaxRoundMerges
  /\ \E b \in RoundBatches, md \in MeetingDateOptions :
       LET r == mergeSpreadsheet(doc, b, md)
       IN /\ doc' = r.doc
          /\ result' = r.result
          /\ batch' = b
          /\ meetingDate' = md
  /\ master' = doc
  /\ origin' = IF origin = "none" THEN "fresh" ELSE origin
  /\ merges' = merges + 1
  /\ NoRead

RoundNext == CreateMaster \/ MergeRound \/ Review \/ Parse

RoundSpec == Init /\ [][RoundNext]_vars

(***************************************************************************)
(* Vocabulary of the properties.                                           *)
(***************************************************************************)
IsSubtotalRow(row) == GetCell(row, 7) = Str("Weekly Subtotal:")

IsRemainingRow(row) == GetCell(row, 7) = Str("Remaining Budget:")

\* the section header rows mergeSpreadsheet writes: one title merged over
\* the twelve columns
IsSectionHeader(row) == row.merged = 12

\* a row laid out as a Pool-Tracked data row: twelve cells, amount in D
IsAFRLayoutRow(row) == Len(row.cells) = 12 /\ row.cells[4].t = "num"

\* a row laid out as addReallocationRequests writes it: four cells, amount in C
IsReallocationLayoutRow(row) == Len(row.cells) = 4 /\ row.cells[3].t = "num"

RowsWhere(rows, P(_)) == {i \in 1..Len(rows) : P(rows[i])}

RECURSIVE CountIn(_, _, _)
CountIn(sheets, P(_), i) ==
  IF i > Len(sheets) THEN 0
  ELSE Cardinality(RowsWhere(sheets[i].rows, P)) + CountIn(sheets, P, i + 1)

\* number of rows of the workbook that satisfy P
Count(d, P(_)) == CountIn(d.sheets, P, 1)

\* the rows of the sheet mergeSpreadsheet takes for the Pool-Tracked sheet
AFRRowsOf(d) ==
  IF d.kind = "wb" /\ findAFRWorksheet(d.sheets) # 0
  THEN d.sheets[findAFRWorksheet(d.sheets)].rows
  ELSE << >>

ReallocationRowsOf(d) ==
  IF d.kind = "wb" /\ findReallocationWorksheet(d.sheets) # 0
  THEN d.sheets[findReallocationWorksheet(d.sheets)].rows
  ELSE << >>

\* the remaining-balance row before row i, 0 if there is none
PreviousRemaining(rows, i) ==
  IF \E p \in 1..(i - 1) : IsRemainingRow(rows[p])
  THEN CHOOSE p \in 1..(i - 1) :
         /\ IsRemainingRow(rows[p])
         /\ \A q \in (p + 1)..(i - 1) : ~IsRemainingRow(rows[q])
  ELSE 0

NewAfr == filterByRequestType(batch, "AFR")

NewReallocation == filterByRequestType(batch, "Reallocation")

(***************************************************************************)
(* C1.  In every sheet, after any number of merges, the remaining-balance  *)
(* formula of every section but the first is                               *)
(* <I cell of the preceding 'Remaining Budget:' row> - <H cell of the      *)
(* section's own 'Weekly Subtotal:' row>, the subtotal row being the row   *)
(* right above.                                                            *)
(***************************************************************************)
C1_ChainIntact ==
  \A s \in 1..Len(doc.sheets) :
    LET rows == doc.sheets[s].rows
    IN \A i \in RowsWhere(rows, IsRemainingRow) :
         PreviousRemaining(rows, i) # 0 =>
           /\ i > 1
           /\ IsSubtotalRow(rows[i - 1])
           /\ GetCell(rows[i], 9) =
                FMinus(Ref("I", PreviousRemaining(rows, i)), Ref("H", i - 1))

\* three chained sections in one sheet
C1_Witness ==
  \E s \in 1..Len(doc.sheets) :
    Cardinality(RowsWhere(doc.sheets[s].rows, IsRemainingRow)) >= 3

(***************************************************************************)
(* C2.  The remaining-balance formula of the first Pool-Tracked section    *)
(* references the starting-balance cell of the document: I1 of a ledger    *)
(* made by generateMasterSpreadsheet, the column-I cell of the 'Initial    *)
(* Budget' row of a ledger made by a merge without a master.               *)
(***************************************************************************)
IsInitialBudgetRow(row) == GetCell(row, 3) = Str("Initial Budget")

StartingBalanceCell(rows) ==
  IF \E r \in 1..Len(rows) : IsInitialBudgetRow(rows[r])
  THEN Ref("I", CHOOSE r \in 1..Len(rows) : IsInitialBudgetRow(rows[r]))
  ELSE Ref("I", 1)

C2_FirstSectionReferencesStartingBalance ==
  origin \in {"master", "fresh"} =>
    LET rows == AFRRowsOf(doc)
    IN \A i \in RowsWhere(rows, IsRemainingRow) :
         PreviousRemaining(rows, i) = 0 =>
           GetCell(rows[i], 9) =
             FMinus(StartingBalanceCell(rows), Ref("H", i - 1))

\* the part of C2 that holds: ledgers made by generateMasterSpreadsheet
C2_MasterLedgerReferencesI1 ==
  origin = "master" =>
    LET rows == AFRRowsOf(doc)
    IN \A i \in RowsWhere(rows, IsRemainingRow) :
         PreviousRemaining(rows, i) = 0 =>
           /\ GetCell(rows[i], 9) = FMinus(Ref("I", 1), Ref("H", i - 1))
           /\ GetCell(rows[1], 9).t = "num"

(***************************************************************************)
(* C3.  In a ledger made by generateMasterSpreadsheet with starting        *)
(* balance B, once every row of every section is Approved with After       *)
(* Amendments = requested amount, the remaining-balance cell of section j  *)
(* evaluates to B minus the requested amounts of sections 1..j.            *)
(***************************************************************************)
RECURSIVE RequestedUpTo(_, _)
RequestedUpTo(rows, i) ==
  IF i = 0 THEN 0
  ELSE (IF IsAFRLayoutRow(rows[i]) THEN rows[i].cells[4].n ELSE 0)
       + RequestedUpTo(rows, i - 1)

AllApprovedAsRequested(rows) ==
  \A i \in RowsWhere(rows, IsAFRLayoutRow) :
    /\ GetCell(rows[i], 7) = Str("Approved")
    /\ GetCell(rows[i], 6) = GetCell(rows[i], 4)

C3_RemainingBalanceValues ==
  (origin = "master" /\ AllApprovedAsRequested(AFRRowsOf(doc))) =>
    LET rows == AFRRowsOf(doc)
    IN \A i \in RowsWhere(rows, IsRemainingRow) :
         Evaluate(rows, Ref("I", i)) =
           Val(GetCell(rows[1], 9).n - RequestedUpTo(rows, i))

\* three sections, all approved as requested, in an initialised ledger
C3_Witness ==
  /\ origin = "master"
  /\ AllApprovedAsRequested(AFRRowsOf(doc))
  /\ Cardinality(RowsWhere(AFRRowsOf(doc), IsRemainingRow)) >= 3

(***************************************************************************)
(* After a merge that returned: the rows written for the batch.            *)
(***************************************************************************)
\* row number of the last 'Remaining Budget:' row, 0 if there is none
LastRemaining(rows) == PreviousRemaining(rows, Len(rows) + 1)

\* row number of the k-th Pool-Tracked record of the batch: the records lie
\* right above the new subtotal row
NewAfrRow(k) == LastRemaining(AFRRowsOf(doc)) - 2 - Len(NewAfr) + k

\* row number of the k-th Simple record of the batch: the records end the sheet
NewReallocationRow(k) ==
  Len(ReallocationRowsOf(doc)) - Len(NewReallocation) + k

IsPrefix(old, new) ==
  /\ Len(old) <= Len(new)
  /\ SubSeq(new, 1, Len(old)) = old

Delta(P(_)) == Count(doc, P) - Count(master, P)

(***************************************************************************)
(* C4.  A merge that returns appends exactly one section for every         *)
(* category with records in the batch and nothing for a category without:  *)
(* one more section header, subtotal row and remaining-balance row exactly *)
(* when the batch has Pool-Tracked records, as many more data rows of each *)
(* layout as the batch has records of the category, and the new rows of a  *)
(* category form one block, in batch order, at the end of their section    *)
(* list (above the new subtotal row for Pool-Tracked).  A batch without    *)
(* Pool-Tracked records adds no row but the Simple rows (and the column    *)
(* headers of a Simple sheet made for them).                               *)
(***************************************************************************)
IsReallocationHeader(row) == row.cells = REALLOCATION_COLUMNS

AnyRow(row) == TRUE

HasOrg(d, col, name) ==
  \E s \in 1..Len(d.sheets) :
    \E r \in 1..Len(d.sheets[s].rows) :
      GetCell(d.sheets[s].rows[r], col) = Str(name)

IsApprovedRow(row) == GetCell(row, 7) = Str("Approved")

NumberIn(cell) == IF cell.t = "num" THEN cell.n ELSE 0

C6_FreshRowsAreBlankWithRowFormulas ==
  /\ (result = "ok" /\ Len(NewAfr) > 0) =>
       \A k \in 1..Len(NewAfr) :
         ~NewAfr[k].isPreApproved =>
           LET r == NewAfrRow(k)
               row == AFRRowsOf(doc)[r]
           IN /\ GetCell(row, 6) = Null
              /\ GetCell(row, 7) = Str("")
              /\ GetCell(row, 5) = FMinus(Ref("D", r), Ref("F", r))
              /\ GetCell(row, 8) = FIfApproved(Ref("G", r), Ref("F", r))
  /\ \A s \in 1..Len(doc.sheets) :
       LET rows == doc.sheets[s].rows
       IN \A r \in RowsWhere(rows, IsAFRLayoutRow) :
            /\ Evaluate(rows, Ref("H", r)) =
                 Val(IF GetCell(rows[r], 7) = Str("Approved")
                     THEN NumberIn(GetCell(rows[r], 6)) ELSE 0)
            /\ Evaluate(rows, Ref("E", r)) =
                 Val(GetCell(rows[r], 4).n - NumberIn(GetCell(rows[r], 6)))

\* a reviewed ledger with a Denied row whose F is filled and an Approved row
\* whose F differs from the requested amount, and another merge into it
C6_Witness ==
  /\ result = "ok"
  /\ \E k \in 1..Len(NewAfr) : ~NewAfr[k].isPreApproved
  /\ \E s \in 1..Len(doc.sheets) :
       LET rows == doc.sheets[s].rows
       IN /\ \E r \in RowsWhere(rows, IsAFRLayoutRow) :
               /\ GetCell(rows[r], 7) = Str("Denied")
               /\ NumberIn(GetCell(rows[r], 6)) > 0
          /\ \E r \in RowsWhere(rows, IsAFRLayoutRow) :
               /\ GetCell(rows[r], 7) = Str("Approved")
               /\ GetCell(rows[r], 6) # GetCell(rows[r], 4)

(***************************************************************************)
(* C7.  A Pool-Tracked record that is pre-approved at merge time is        *)
(* written with Status "Approved", Final Amount and After Amendments the   *)
(* requested amount, all literals, and the note                            *)
(* "<finance route>: <description>".                                       *)
(***************************************************************************)
\* the note the documentation gives a record: the routing tag and the
\* description for a pre-approved record, the description alone otherwise
NoteOf(request) ==
  IF request.isPreApproved
  THEN request.financeRoute \o ": " \o request.description
  ELSE request.description

C7_PreApprovedWrittenAsLiterals ==
  (result = "ok" /\ Len(NewAfr) > 0) =>
    \A k \in 1..Len(NewAfr) :
      NewAfr[k].isPreApproved =>
        LET row == AFRRowsOf(doc)[NewAfrRow(k)]
        IN /\ GetCell(row, 7) = Str("Approved")
           /\ GetCell(row, 8) = Num(NewAfr[k].amount)
           /\ GetCell(row, 6) = Num(NewAfr[k].amount)
           /\ GetCell(row, 2) = Str(NoteOf(NewAfr[k]))

(***************************************************************************)
(* C8.  Every row merge writes, in either category, carries the display    *)
(* name, the requested amount, the account reference and the note of its   *)
(* record; the note of a record that awaits its decision is the raw        *)
(* description.                                                            *)
(***************************************************************************)
HasCell(row, cell) == \E c \in 1..Len(row.cells) : row.cells[c] = cell

C8_RowCarriesRecordFields ==
  result = "ok" =>
    /\ Len(NewAfr) > 0 =>
         \A k \in 1..Len(NewAfr) :
           LET row == AFRRowsOf(doc)[NewAfrRow(k)]
           IN /\ GetCell(row, 3) = Str(DisplayNameOf(NewAfr[k]))
              /\ GetCell(row, 4) = Num(NewAfr[k].amount)
              /\ GetCell(row, 12) = Str(NewAfr[k].accountNumber)
              /\ GetCell(row, 2) = Str(NoteOf(NewAfr[k]))
    /\ \A k \in 1..Len(NewReallocation) :
         LET row == ReallocationRowsOf(doc)[NewReallocationRow(k)]
         IN /\ HasCell(row, Str(DisplayNameOf(NewReallocation[k])))
            /\ HasCell(row, Num(NewReallocation[k].amount))
            /\ HasCell(row, Str(NewReallocation[k].accountNumber))
            /\ HasCell(row, Str(NoteOf(NewReallocation[k])))

(***************************************************************************)
(* C9.  A merge into a workbook that has no sheet named 'AFR Requests',    *)
(* 'AFR', 'Sunday Meeting', 'Reallocation Requests' or 'Reallocation'      *)
(* fails and leaves no new document.                                       *)
(***************************************************************************)
CategorySheetNames ==
  {"AFR Requests", "AFR", "Sunday Meeting", "Reallocation Requests",
   "Reallocation"}

Unrecognized(d) ==
  /\ d.kind = "wb"
  /\ \A i \in 1..Len(d.sheets) : d.sheets[i].name \notin CategorySheetNames

C9_UnrecognizedWorkbookFails ==
  (result # "none" /\ Unrecognized(master)) =>
    (result = "error" /\ doc = master)

(***************************************************************************)
(* C10.  Sheets per category, for a ledger that began with no document or  *)
(* with generateMasterSpreadsheet.                                         *)
(***************************************************************************)
AFRSheetNames == {"AFR Requests", "AFR", "Sunday Meeting"}

ReallocationSheetNames == {"Reallocation Requests", "Reallocation"}

SheetsNamed(d, names) ==
  Cardinality({i \in 1..Len(d.sheets) : d.sheets[i].name \in names})

GroupOf(i) == {j \in DOMAIN submitted : OrgKey(submitted[j]) = OrgKey(submitted[i])}

\* C11: after every applyOrgNumbering call, whatever was called before, the
\* result has the length and the order of the input; a record whose trimmed,
\* lower-cased organization name is shared by other records of the batch is
\* named by its own organization name as submitted, a space and its 1-based
\* rank among them in input order; for Acme, acme, Beta the result is
\* "Acme 1", "acme 2", "Beta".
C11_NumberedInInputOrder ==
  /\ Len(numbered) = Len(submitted)
  /\ \A i \in DOMAIN submitted :
       /\ numbered[i].submissionId = submitted[i].submissionId
       /\ Cardinality(GroupOf(i)) > 1 =>
            numbered[i].organizationName =
              submitted[i].organizationName \o <<" ">> \o
                NumberToString(Cardinality({j \in GroupOf(i) : j <= i}))
  /\ OrganizationNamesOf(submitted) =
       << <<"A", "c", "m", "e">>, <<"a", "c", "m", "e">>, <<"B", "e", "t", "a">> >>
     => OrganizationNamesOf(numbered) =
          << <<"A", "c", "m", "e", " ", "1">>, <<"a", "c", "m", "e", " ", "2">>,
             <<"B", "e", "t", "a">> >>

\* A call on three records of one group whose names differ in casing and in
\* trailing white space, numbered 1, 2, 3.
C11_Witness ==
  /\ Len(submitted) = 3
  /\ Cardinality(GroupOf(1)) = 3
  /\ submitted[1].organizationName # submitted[2].organizationName
  /\ submitted[2].organizationName # submitted[3].organizationName
  /\ \A i \in 1..3 :
       numbered[i].organizationName =
         NumberedName(submitted[i].organizationName, i)

\* C12: when the trimmed, lower-cased organization names of the batch are
\* pairwise distinct, every record of the result keeps its organizationName.
C12_UniqueNamesUnchanged ==
  (\A i \in DOMAIN submitted : GroupOf(i) = {i})
    => /\ Len(numbered) = Len(submitted)
       /\ \A i \in DOMAIN submitted :
            numbered[i].organizationName = submitted[i].organizationName

\* A call on three records of three different organizations.
C12_Witness ==
  /\ Len(submitted) = 3
  /\ \A i \in 1..3 : GroupOf(i) = {i}
  /\ numbered = submitted

\* C13: the display names of one result are pairwise distinct.
C13_DisplayNamesPairwiseDistinct ==
  \A i, j \in DOMAIN numbered :
    i # j => numbered[i].organizationName # numbered[j].organizationName

\* What does hold: display names collide only between different groups, the
\* name of one of them already ending in the number given in the other.
C13_DistinctWithinGroup ==
  \A i, j \in DOMAIN numbered :
    (i # j /\ j \in GroupOf(i))
      => numbered[i].organizationName # numbered[j].organizationName

(***************************************************************************)
(* Properties of the Reader.  A state with parsed # NotParsed holds the    *)
(* parse result of the present doc; if moreover result = "ok", the file    *)
(* was read immediately after the merge of batch on meetingDate into       *)
(* master.                                                                 *)
(***************************************************************************)
HasBeenRead == parsed # NotParsed

ReadAfterMerge == HasBeenRead /\ result = "ok"

Summaries == getWeekSummaries(parsed.weeks)

\* a non-empty batch of records of one category
OneCategory(requests) ==
  /\ requests # << >>
  /\ \A i, j \in DOMAIN requests : requests[i].requestType = requests[j].requestType

\* the display date the Writer gives the sections of the last merge
WrittenDate == formatMeetingDate(meetingDate)

\* the weeks the Reader finds in a file, none if it reports an error
WeeksOf(d) == parseWeeklySpreadsheet(d).weeks

HasWeek(weeks, date) == \E i \in DOMAIN weeks : weeks[i].date = date

\* C14: a file read immediately after a batch of N records of one category
\* was merged on a meeting date has a week summary for that date with
\* requestCount = N and approvedCount + deniedCount <= N, with equality only
\* if every record was pre-approved.
C14_ReadAfterWriteRowCount ==
  (ReadAfterMerge /\ OneCategory(batch)) =>
    \E i \in DOMAIN Summaries :
      /\ Summaries[i].date = WrittenDate
      /\ Summaries[i].requestCount = Len(batch)
      /\ Summaries[i].approvedCount + Summaries[i].deniedCount <= Len(batch)
      /\ Summaries[i].approvedCount + Summaries[i].deniedCount = Len(batch)
           => \A r \in DOMAIN batch : batch[r].isPreApproved

\* What does hold: the count is right for a Pool-Tracked batch merged into
\* no document or into a ledger the Writer made, if it has no week of that
\* date yet; no new row is decided.
C14_PoolTrackedRowCount ==
  (/\ ReadAfterMerge
   /\ OneCategory(batch)
   /\ batch[1].requestType = "AFR"
   /\ origin \in {"fresh", "master"}
   /\ ~HasWeek(WeeksOf(master), WrittenDate))
  => \E i \in DOMAIN Summaries :
       /\ Summaries[i].date = WrittenDate
       /\ Summaries[i].requestCount = Len(batch)
       /\ Summaries[i].approvedCount + Summaries[i].deniedCount = 0

\* The Simple rows the Writer appends are never read back: they carry no
\* "Week of" row, so no week of a ledger the Writer made has one.
C14_SimpleRowsNotRead ==
  (HasBeenRead /\ origin \in {"fresh", "master"}) =>
    \A i \in DOMAIN parsed.weeks : parsed.weeks[i].reallocationRequests = << >>


\* the weeks of a parse result that carry the display date
WeeksOn(weeks, date) == {i \in DOMAIN weeks : weeks[i].date = date}

\* number of Pool-Tracked rows the Reader finds for the display date
AfrCountOn(weeks, date) ==
  IF HasWeek(weeks, date)
  THEN Len(weeks[CHOOSE i \in DOMAIN weeks : weeks[i].date = date].afrRequests)
  ELSE 0

\* The last merge added Pool-Tracked records to a ledger the Writer made
\* that already had a week of the same date, and the file was read back.
SecondSectionOfDateRead ==
  /\ ReadAfterMerge
  /\ origin \in {"fresh", "master"}
  /\ NewAfr # << >>
  /\ HasWeek(WeeksOf(master), WrittenDate)

DateISOs(weeks) == [i \in DOMAIN weeks |-> weeks[i].dateISO]

\* no week is followed by a week of a later day
MostRecentFirst(weeks) ==
  \A i, j \in DOMAIN weeks : i < j => ~IsoBefore(weeks[i].dateISO, weeks[j].dateISO)

\* Pool-Tracked records were merged into no document on 2026-02-01, then
\* into that ledger on 2026-02-08, and the file was read back.
MergedFirstThenEighth ==
  /\ ReadAfterMerge
  /\ origin = "fresh"
  /\ merges = 2
  /\ meetingDate = "2026-02-08"
  /\ NewAfr # << >>
  /\ Len(WeeksOf(master)) = 1
  /\ HasWeek(WeeksOf(master), formatMeetingDate("2026-02-01"))

\* C16: the weeks parseWeeklySpreadsheet returns are sorted by meeting date,
\* most recent first, whatever the order of the merges; merging on
\* 2026-02-01 then 2026-02-08 and reading back gives [2026-02-08, 2026-02-01].
C16_WeeksMostRecentFirst ==
  HasBeenRead =>
    /\ MostRecentFirst(parsed.weeks)
    /\ MergedFirstThenEighth =>
         DateISOs(parsed.weeks) = <<"2026-02-08", "2026-02-01">>

\* What does hold: the order by dateISO, in every time zone, and the dates
\* of the example where the process runs in UTC.
C16_SortedByDateISO ==
  HasBeenRead =>
    /\ MostRecentFirst(parsed.weeks)
    /\ (MergedFirstThenEighth /\ tz = "UTC") =>
         DateISOs(parsed.weeks) = <<"2026-02-08", "2026-02-01">>

C16_ExampleReadInUTC == MergedFirstThenEighth /\ tz = "UTC"

C16_ExampleReadWestOfGreenwich ==
  /\ MergedFirstThenEighth
  /\ tz = "America/New_York"
  /\ DateISOs(parsed.weeks) = <<"2026-02-07", "2026-01-31">>


\* the weeks of a parse result that findWeekByDate's test accepts for a date
WeeksMatching(weeks, date) ==
  {i \in DOMAIN weeks : weeks[i].date = date \/ weeks[i].dateISO = date}

\* C17: the parse result has exactly one week per calendar date: no two
\* returned weeks have the same dateISO, and a lookup by the display date or
\* by the ISO date of a returned week identifies a single week.
C17_OneWeekPerCalendarDate ==
  HasBeenRead =>
    /\ \A i, j \in DOMAIN parsed.weeks :
         parsed.weeks[i].dateISO = parsed.weeks[j].dateISO => i = j
    /\ \A i \in DOMAIN parsed.weeks :
         /\ Cardinality(WeeksMatching(parsed.weeks, parsed.weeks[i].date)) = 1
         /\ Cardinality(WeeksMatching(parsed.weeks, parsed.weeks[i].dateISO)) = 1
         /\ findWeekByDate(parsed.weeks, parsed.weeks[i].date) = parsed.weeks[i]
         /\ findWeekByDate(parsed.weeks, parsed.weeks[i].dateISO) = parsed.weeks[i]

\* What does hold: one week per date text, and the two sheets' rows of one
\* date text are in one week.
C17_OneWeekPerDateText ==
  HasBeenRead =>
    /\ \A i, j \in DOMAIN parsed.weeks :
         parsed.weeks[i].date = parsed.weeks[j].date => i = j
    /\ \A i \in DOMAIN parsed.weeks :
         findWeekByDate(parsed.weeks, parsed.weeks[i].date) = parsed.weeks[i]

\* In a ledger made by the Writer alone every date is written the same way,
\* so there the weeks are one per calendar date.
C17_OneWeekPerDateInWrittenLedger ==
  (HasBeenRead /\ origin \in {"fresh", "master"}) =>
    \A i, j \in DOMAIN parsed.weeks :
      parsed.weeks[i].dateISO = parsed.weeks[j].dateISO => i = j


\* number of rows of a week with the given status
StatusCount(week, status) ==
  Cardinality({k \in DOMAIN AllRequests(week) : AllRequests(week)[k].status = status})

\* the warnings list names the week
WarningNames(warnings, date) == \E k \in DOMAIN warnings : warnings[k].week = date

\* C18: for every week summary requestCount = afrCount + reallocationCount,
\* approvedCount counts the rows with status Approved and deniedCount those
\* with status Denied, so approvedCount + deniedCount <= requestCount and
\* rows with no status are in neither; the warnings name a week if and only
\* if it has a row with no status.
C18_CountsAndStatusWarnings ==
  HasBeenRead =>
    \A i \in DOMAIN parsed.weeks :
      LET week == parsed.weeks[i]
          summary == Summaries[i]
      IN /\ summary.date = week.date
         /\ summary.requestCount = summary.afrCount + summary.reallocationCount
         /\ summary.afrCount = Len(week.afrRequests)
         /\ summary.reallocationCount = Len(week.reallocationRequests)
         /\ summary.approvedCount = StatusCount(week, "Approved")
         /\ summary.deniedCount = StatusCount(week, "Denied")
         /\ summary.approvedCount + summary.deniedCount <= summary.requestCount
         /\ summary.approvedCount + summary.deniedCount
              = summary.requestCount - StatusCount(week, "null")
         /\ WarningNames(parsed.warnings, week.date) <=> StatusCount(week, "null") > 0

\* a read result with a decided week without warning and an undecided one
\* with a warning, rows of both sheets counted
C18_Witness ==
  /\ HasBeenRead
  /\ \E i, j \in DOMAIN parsed.weeks :
       /\ Summaries[i].approvedCount > 0
       /\ Summaries[i].deniedCount > 0
       /\ ~WarningNames(parsed.warnings, parsed.weeks[i].date)
       /\ StatusCount(parsed.weeks[j], "null") > 0
       /\ WarningNames(parsed.warnings, parsed.weeks[j].date)
  /\ \E i \in DOMAIN parsed.weeks :
       Summaries[i].afrCount > 0 /\ Summaries[i].reallocationCount > 0


\* some row of the sheet is a section-start marker for the Reader
HasMarkerRow(rows) ==
  \E r \in DOMAIN rows : extractWeekDate(getCellString(rows, r, 1)) # ""

\* the sheets the Reader takes for the two category sheets
LocatedCategorySheets(d) ==
  {n \in {readerAFRWorksheet(d.sheets), readerReallocationWorksheet(d.sheets)} : n # 0}

\* the file loads and no row of a located category sheet is a marker
NoMarkerRow(d) ==
  /\ d.kind = "wb"
  /\ \A n \in LocatedCategorySheets(d) : ~HasMarkerRow(d.sheets[n].rows)

SheetsOfCategory(d, names) == {i \in 1..Len(d.sheets) : d.sheets[i].name \in names}

\* The document has no sheet of the one category, and a sheet of the other
\* category with a section-start marker.
OnlyCategoryWithSections(d, present, absent) ==
  /\ d.kind = "wb"
  /\ SheetsOfCategory(d, absent) = {}
  /\ \E i \in SheetsOfCategory(d, present) : HasMarkerRow(d.sheets[i].rows)

\* Every warning the Reader pushes is about the statuses of a week; a
\* warning that reports a sheet would name no week.
ReportsMissingSheet(warning) == warning.week \notin DisplayDates

MissingSheetHandled ==
  /\ parsed.errors = << >>
  /\ \E k \in DOMAIN parsed.warnings : ReportsMissingSheet(parsed.warnings[k])

\* C20: when one category sheet cannot be located and the other is found
\* and yields a section, the Reader succeeds and its warnings report the
\* missing sheet, whichever of the two sheets is missing.
C20_MissingSheetIsAWarning ==
  HasBeenRead =>
    /\ OnlyCategoryWithSections(doc, AFRSheetNames, ReallocationSheetNames)
         => MissingSheetHandled
    /\ OnlyCategoryWithSections(doc, ReallocationSheetNames, AFRSheetNames)
         => MissingSheetHandled

\* What does hold.  Without a Simple sheet the Reader succeeds and says
\* nothing about the sheet: no warning but those on statuses exists.
C20_MissingSimpleSheetIsSilent ==
  (HasBeenRead /\ OnlyCategoryWithSections(doc, AFRSheetNames, ReallocationSheetNames))
  => /\ parsed.errors = << >>
     /\ \A k \in DOMAIN parsed.warnings : ~ReportsMissingSheet(parsed.warnings[k])

\* Without a Pool-Tracked sheet the Reader fails if no sheet has id 1, and
\* else scans the sheet with id 1 as the Pool-Tracked sheet, without warning.
C20_MissingPoolTrackedSheetFailsOrIsReplaced ==
  (HasBeenRead /\ OnlyCategoryWithSections(doc, ReallocationSheetNames, AFRSheetNames))
  => /\ getWorksheetById(doc.sheets, 1) = 0 =>
          /\ parsed.errors = <<"Could not find AFR worksheet in the spreadsheet.">>
          /\ parsed.weeks = << >>
     /\ getWorksheetById(doc.sheets, 1) # 0 => parsed.errors = << >>
     /\ \A k \in DOMAIN parsed.warnings : ~ReportsMissingSheet(parsed.warnings[k])

C20_PoolTrackedOnlyRead ==
  HasBeenRead /\ OnlyCategoryWithSections(doc, AFRSheetNames, ReallocationSheetNames)

C20_SimpleOnlyRead ==
  /\ HasBeenRead
  /\ OnlyCategoryWithSections(doc, ReallocationSheetNames, AFRSheetNames)
  /\ parsed.errors # << >>


(***************************************************************************)
(* Properties of the presentation requests.                                *)
(***************************************************************************)
HasResponded == response # NoResponse

\* the rows of a list that carry a status
Decided(rows) == SelectSeq(rows, LAMBDA r : r.status # "null")

\* the requests are the decided rows of the list, in the order of the sheet
RequestsOfDecidedRows(requests, rows, requestType) ==
  /\ Len(requests) = Len(Decided(rows))
  /\ \A k \in DOMAIN requests :
       /\ requests[k].organizationName = Decided(rows)[k].organization
       /\ requests[k].status = Decided(rows)[k].status
       /\ requests[k].status \in {"Approved", "Denied"}
       /\ requests[k].requestType = requestType

\* the week the route finds for the weekDate of the request, if it parses
WeekAsked == findWeekByDate(WeeksOf(doc), response.weekDate)

\* C21: getWeekPresentationRequests returns exactly the rows of the week
\* with status Approved or Denied, in sheet order, Pool-Tracked rows before
\* Simple rows, none without status; their number is approvedCount +
\* deniedCount of the week's summary; the generate route rejects the week
\* when that number is 0.
C21_PresentationRequestsAreDecidedRows ==
  HasResponded =>
    /\ \A i \in DOMAIN WeeksOf(doc) :
         LET week == WeeksOf(doc)[i]
             requests == getWeekPresentationRequests(week)
             nAfr == Len(Decided(week.afrRequests))
         IN /\ RequestsOfDecidedRows(SubSeq(requests, 1, nAfr), week.afrRequests, "AFR")
            /\ RequestsOfDecidedRows(SubSeq(requests, nAfr + 1, Len(requests)),
                                     week.reallocationRequests, "Reallocation")
            /\ Len(requests) = getWeekSummaries(WeeksOf(doc))[i].approvedCount
                                 + getWeekSummaries(WeeksOf(doc))[i].deniedCount
    /\ (response.weekDate # "" /\ WeekAsked # NoWeek) =>
         IF getWeekPresentationRequests(WeekAsked) = << >>
         THEN response.status = 400 /\ response.requests = << >>
         ELSE /\ response.status = 200
              /\ response.requests = getWeekPresentationRequests(WeekAsked)

\* slides of a week with decided rows of both sheets and an undecided row
C21_Witness ==
  /\ HasResponded
  /\ response.status = 200
  /\ \E k \in DOMAIN response.requests : response.requests[k].requestType = "AFR"
  /\ \E k \in DOMAIN response.requests : response.requests[k].requestType = "Reallocation"
  /\ StatusCount(WeekAsked, "null") > 0


(***************************************************************************)
(* Properties of the merge pipeline.                                       *)
(***************************************************************************)
\* the export was posted and a ledger came back
MergedCsv == uploaded # NotUploaded /\ response # NoResponse /\ response.status = 200

DeniedUpstream(row) == normalizeApprovalStatus(row.approvalStatus) = "Denied"

LateArrival(row) == row.financeReview = "Finance Review"

RowsWith(rows, P(_)) == Cardinality({i \in DOMAIN rows : P(rows[i])})

\* the data rows the merge added to the ledger
RowsAdded == Delta(IsAFRLayoutRow) + Delta(IsReallocationLayoutRow)

HasWarning(warnings, about, n) ==
  \E k \in DOMAIN warnings : warnings[k] = Warning(about, n)

WarnsAbout(warnings, about) == \E k \in DOMAIN warnings : warnings[k].about = about

\* C22: the pipeline never writes a record whose upstream status is Denied
\* or whose upstream routing is 'Finance Review'; when d denied and l late
\* records are dropped, the warnings and the exclusion counts of the
\* response state d and l, and the section has the remaining rows.
C22_DeniedAndLateExcludedAndReported ==
  MergedCsv =>
    LET d == RowsWith(uploaded.rows, DeniedUpstream)
        l == RowsWith(uploaded.rows, LateArrival)
    IN /\ \A k \in DOMAIN batch :
            /\ ~DeniedUpstream(uploaded.rows[batch[k].submissionId])
            /\ ~LateArrival(uploaded.rows[batch[k].submissionId])
       /\ RowsAdded = Len(uploaded.rows) - d - l
       /\ response.excluded = [denied |-> d, financeReview |-> l]
       /\ IF d > 0 THEN HasWarning(response.warnings, "denied", d)
          ELSE ~WarnsAbout(response.warnings, "denied")
       /\ IF l > 0 THEN HasWarning(response.warnings, "financeReview", l)
          ELSE ~WarnsAbout(response.warnings, "financeReview")

\* What does hold: the denied records are dropped, counted and named in a
\* warning; every other record is written, in the order of the export.
C22_DeniedExcludedAndReported ==
  MergedCsv =>
    LET d == RowsWith(uploaded.rows, DeniedUpstream)
    IN /\ \A k \in DOMAIN batch : ~DeniedUpstream(uploaded.rows[batch[k].submissionId])
       /\ Len(batch) = Len(uploaded.rows) - d
       /\ RowsAdded = Len(batch)
       /\ response.excluded.denied = d
       /\ IF d > 0 THEN HasWarning(response.warnings, "denied", d)
          ELSE ~WarnsAbout(response.warnings, "denied")

\* The late arrivals are written like session-review records and are
\* counted nowhere.
C22_LateArrivalsWritten ==
  MergedCsv =>
    /\ \A i \in DOMAIN uploaded.rows :
         (LateArrival(uploaded.rows[i]) /\ ~DeniedUpstream(uploaded.rows[i])) =>
           \E k \in DOMAIN batch :
             batch[k].submissionId = i /\ batch[k].financeRoute = "Sunday Meeting"
    /\ response.excluded.financeReview = 0
    /\ ~WarnsAbout(response.warnings, "financeReview")

C22_DeniedAndLatePosted ==
  /\ MergedCsv
  /\ RowsWith(uploaded.rows, DeniedUpstream) = 1
  /\ RowsWith(uploaded.rows, LateArrival) = 1
  /\ Len(batch) = 2


(***************************************************************************)
(* C23.  In every Pool-Tracked section the subtotal formula is the SUM of  *)
(* column H from the first to the last data row of exactly that section:   *)
(* the range of the section a merge has just written covers the rows of    *)
(* the batch's Pool-Tracked records and nothing else, whatever the batch   *)
(* size and whatever the document held before; and in a ledger the Writer  *)
(* made, the range of every subtotal row ends right above it, holds data   *)
(* rows only and has no data row right above it.                           *)
(***************************************************************************)
\* the row range [a, b] of a subtotal's SUM(Ha:Hb)
RowsSummed(row) == (GetCell(row, 8).a.row)..(GetCell(row, 8).b.row)

IsColumnSum(cell) ==
  /\ cell.t = "formula"
  /\ cell.op = "sum"
  /\ cell.a.col = "H"
  /\ cell.b.col = "H"

SumsExactlyRowsAbove(rows, i) ==
  LET cell == GetCell(rows[i], 8)
  IN /\ IsColumnSum(cell)
     /\ cell.b.row = i - 1
     /\ cell.a.row \in 2..(i - 1)
     /\ \A r \in (cell.a.row)..(cell.b.row) : IsAFRLayoutRow(rows[r])
     /\ ~IsAFRLayoutRow(rows[cell.a.row - 1])

C23_SubtotalSumsExactlyItsSection ==
  /\ (result = "ok" /\ Len(NewAfr) >= 1) =>
       LET rows == AFRRowsOf(doc)
           sub == LastRemaining(rows) - 1
       IN /\ IsSubtotalRow(rows[sub])
          /\ GetCell(rows[sub], 8) =
               FSum(Ref("H", NewAfrRow(1)), Ref("H", NewAfrRow(Len(NewAfr))))
          /\ SumsExactlyRowsAbove(rows, sub)
          /\ Cardinality(RowsSummed(rows[sub])) = Len(NewAfr)
          /\ \A k \in 1..Len(NewAfr) :
               /\ GetCell(rows[NewAfrRow(k)], 3) =
                    Str(DisplayNameOf(NewAfr[k]))
               /\ GetCell(rows[NewAfrRow(k)], 4) = Num(NewAfr[k].amount)
  /\ origin \in {"fresh", "master"} =>
       \A s \in 1..Len(doc.sheets) :
         \A i \in RowsWhere(doc.sheets[s].rows, IsSubtotalRow) :
           SumsExactlyRowsAbove(doc.sheets[s].rows, i)

\* a section of two records written below two earlier sections
C23_Witness ==
  /\ result = "ok"
  /\ Len(NewAfr) = 2
  /\ merges >= 3
  /\ Cardinality(RowsWhere(AFRRowsOf(doc), IsSubtotalRow)) >= 3
  /\ Cardinality(RowsSummed(AFRRowsOf(doc)[LastRemaining(AFRRowsOf(doc)) - 1])) = 2


(***************************************************************************)
(* C24.  The finalAmount the Reader decodes for a Simple row.  As stated:  *)
(* it is the row's approved amount whatever the status.  As the Reader     *)
(* computes it: the approved amount if the status is 'Approved', else 0.   *)
(***************************************************************************)
\* the Simple rows of the weeks read
SimpleRowsRead ==
  UNION {{parsed.weeks[i].reallocationRequests[k] :
            k \in DOMAIN parsed.weeks[i].reallocationRequests} :
         i \in DOMAIN parsed.weeks}

\* `afterAmendments` as a number: null stands for no amount
AmountOrZero(cell) == IF cell.t = "num" THEN cell.n ELSE 0

\* the rows of the document's Simple sheet that carry the organization
SimpleSheetRowsOf(d, organization) ==
  LET n == readerReallocationWorksheet(d.sheets)
  IN IF n = 0 THEN {}
     ELSE {d.sheets[n].rows[r] : r \in
             {q \in 1..Len(d.sheets[n].rows) :
                GetCell(d.sheets[n].rows[q], 3) = Str(organization)}}

\* as stated: finalAmount is the approved amount, with no conditional
C24_SimpleFinalAmountIsApprovedAmount ==
  HasBeenRead =>
    \A row \in SimpleRowsRead :
      row.finalAmount = AmountOrZero(row.afterAmendments)

\* as computed: the approved amount of column E if the status decoded from
\* column F is 'Approved', else 0
C24_SimpleFinalAmountIfApproved ==
  HasBeenRead =>
    \A row \in SimpleRowsRead :
      /\ row.finalAmount =
           IF row.status = "Approved" THEN AmountOrZero(row.afterAmendments)
           ELSE 0
      /\ \A written \in SimpleSheetRowsOf(doc, row.organization) :
           GetCell(written, 5).t = "num" =>
             row.finalAmount =
               IF row.status = "Approved" THEN GetCell(written, 5).n ELSE 0

\* a file was read that has an approved Simple row and a denied one with an
\* approved amount entered
C24_Witness ==
  /\ HasBeenRead
  /\ \E row \in SimpleRowsRead :
       row.status = "Approved" /\ row.finalAmount = 60
  /\ \E row \in SimpleRowsRead :
       /\ row.status = "Denied"
       /\ row.afterAmendments = Num(40)
       /\ \E written \in SimpleSheetRowsOf(doc, row.organization) :
            GetCell(written, 5) = Num(40)


(***************************************************************************)
(* C25.  parseNotesColumn on a note '<Tag>: <rest>', <Tag> one of          *)
(* 'Auto-Approve' and 'Budget Review', returns the tag as the routing      *)
(* class and <rest> as the description; on any other note it returns       *)
(* 'Sunday Meeting' and the raw note as the description.                   *)
(***************************************************************************)
HasBeenDecoded == decoded # NotDecoded

\* the note as a string
NoteTyped == NoteText(note)

\* the routing tags as the Writer spells them
KnownTags ==
  {<<"A", "u", "t", "o", "-", "A", "p", "p", "r", "o", "v", "e">>,
   <<"B", "u", "d", "g", "e", "t", " ", "R", "e", "v", "i", "e", "w">>}

\* text = tag \o ": " \o rest, for some rest
IsTagged(text, tag) ==
  /\ Len(text) >= Len(tag) + 2
  /\ SubSeq(text, 1, Len(tag)) = tag
  /\ text[Len(tag) + 1] = ":"
  /\ text[Len(tag) + 2] = " "

RestOf(text, tag) == SubSeq(text, Len(tag) + 3, Len(text))

C25_TagAndRestOrRawNote ==
  HasBeenDecoded =>
    IF \E tag \in KnownTags : IsTagged(NoteTyped, tag)
    THEN \A tag \in KnownTags :
           IsTagged(NoteTyped, tag) =>
             /\ decoded.financeRoute = tag
             /\ decoded.description = RestOf(NoteTyped, tag)
    ELSE /\ decoded.financeRoute = SundayMeeting
         /\ decoded.description = NoteTyped

\* a text of one line with no white space at its ends and no colon
IsPlainLine(text) ==
  /\ \A i \in DOMAIN text : text[i] \notin LineTerminators \cup {":"}
  /\ text = trim(text)

\* what holds: the claim for the notes whose rest, or whose whole text when
\* there is no tag, is one plain line
C25_PlainNotesDecodedAsStated ==
  HasBeenDecoded =>
    /\ \A tag \in KnownTags :
         (IsTagged(NoteTyped, tag) /\ IsPlainLine(RestOf(NoteTyped, tag))) =>
           /\ decoded.financeRoute = tag
           /\ decoded.description = RestOf(NoteTyped, tag)
    /\ IsPlainLine(NoteTyped) =>
         /\ decoded.financeRoute = SundayMeeting
         /\ decoded.description = NoteTyped

\* a note such as 'Auto-Approve: Snacks\nDrinks' was decoded
C25_TaggedNoteOfTwoLinesDecoded ==
  /\ HasBeenDecoded
  /\ \E tag \in KnownTags :
       /\ IsTagged(NoteTyped, tag)
       /\ \E i \in DOMAIN RestOf(NoteTyped, tag) :
            RestOf(NoteTyped, tag)[i] \in LineTerminators
       /\ decoded.financeRoute = SundayMeeting


(***************************************************************************)
(* C26.  The rows that are no data rows (subtotal, remaining balance,      *)
(* starting balance, total, column headers, section headers) are never     *)
(* returned by the Reader as rows of a week and never counted in           *)
(* requestCount, for every document the Writer makes by merges.            *)
(***************************************************************************)
\* the rows of all weeks read, of both categories
RowsOfWeek(week) ==
  {week.afrRequests[k] : k \in DOMAIN week.afrRequests}
    \cup {week.reallocationRequests[k] : k \in DOMAIN week.reallocationRequests}

RowsRead == UNION {RowsOfWeek(parsed.weeks[i]) : i \in DOMAIN parsed.weeks}

IsDataRow(row) == IsAFRLayoutRow(row) \/ IsReallocationLayoutRow(row)

\* what the rows of the document that are no data rows show in column C
MarkerTexts(d) ==
  UNION {{getCellString(d.sheets[s].rows, r, 3) :
            r \in {q \in 1..Len(d.sheets[s].rows) :
                     ~IsDataRow(d.sheets[s].rows[q])}} :
         s \in 1..Len(d.sheets)} \ {""}

WriterMade == origin \in {"fresh", "master"}

\* the number of rows of the week that show no marker text
DataRowsCounted(week, d) ==
  Cardinality({k \in DOMAIN week.afrRequests :
                 week.afrRequests[k].organization \notin MarkerTexts(d)})
  + Cardinality({k \in DOMAIN week.reallocationRequests :
                   week.reallocationRequests[k].organization \notin MarkerTexts(d)})

C26_MarkerRowsNeverRead ==
  (HasBeenRead /\ WriterMade) =>
    /\ \A row \in RowsRead : row.organization \notin MarkerTexts(doc)
    /\ \A i \in DOMAIN parsed.weeks :
         Summaries[i].requestCount = DataRowsCounted(parsed.weeks[i], doc)

\* the section titles the Writer gives for an absent and for an unparseable
\* meeting date
UnrecognizedTitles == {WeekTitle(""), WeekTitle("next Sunday")}

AllTitlesRecognized(d) ==
  \A s \in 1..Len(d.sheets) :
    \A r \in 1..Len(d.sheets[s].rows) :
      getCellString(d.sheets[s].rows, r, 1) \notin UnrecognizedTitles

\* what holds: no marker row is read from a ledger whose sections were all
\* merged with a meeting date that could be parsed
C26_MarkerRowsNotReadUnderDatedTitles ==
  (HasBeenRead /\ WriterMade /\ AllTitlesRecognized(doc)) =>
    /\ \A row \in RowsRead : row.organization \notin MarkerTexts(doc)
    /\ \A i \in DOMAIN parsed.weeks :
         Summaries[i].requestCount = DataRowsCounted(parsed.weeks[i], doc)

\* a section title was read as a row of the week before it
C26_SectionTitleReadAsRow ==
  /\ HasBeenRead
  /\ WriterMade
  /\ \E row \in RowsRead : row.organization \in UnrecognizedTitles


(***************************************************************************)
(* C27.  Writer and Reader agree on the row layout of each category sheet: *)
(* the row the Reader decodes from the row written for a record has the    *)
(* record's display name as organization, its amount as requestedAmount,   *)
(* its account as accountNumber and the stored note as notes.              *)
(***************************************************************************)
\* the decoded row carries the fields of the record; storedNote is what the
\* Writer put into the note column
DecodesRecord(row, request, storedNote) ==
  /\ row.organization = DisplayNameOf(request)
  /\ row.requestedAmount = request.amount
  /\ row.accountNumber = request.accountNumber
  /\ row.notes = storedNote

PoolTrackedLayoutAgrees ==
  \A k \in 1..Len(NewAfr) :
    DecodesRecord(parseAFRRow(AFRRowsOf(doc), NewAfrRow(k)), NewAfr[k], "")

SimpleLayoutAgrees ==
  \A k \in 1..Len(NewReallocation) :
    DecodesRecord(parseReallocationRow(ReallocationRowsOf(doc), NewReallocationRow(k)),
                  NewReallocation[k], "")

C27_WriterAndReaderAgreeOnLayout ==
  ReadAfterMerge => (PoolTrackedLayoutAgrees /\ SimpleLayoutAgrees)

\* what holds for the Pool-Tracked sheet
C27_PoolTrackedRowsDecodedAsWritten ==
  ReadAfterMerge => PoolTrackedLayoutAgrees

\* what holds for the Simple sheet: the Writer's four columns (date, name,
\* amount, account) are read as date, notes, organization, requested amount
C27_SimpleRowsDecodedOneColumnOff ==
  ReadAfterMerge =>
    \A k \in 1..Len(NewReallocation) :
      LET row == parseReallocationRow(ReallocationRowsOf(doc), NewReallocationRow(k))
      IN /\ row.notes = DisplayNameOf(NewReallocation[k])
         /\ row.organization = NumberText(NewReallocation[k].amount)
         /\ row.requestedAmount = 0
         /\ row.accountNumber = ""

\* a Simple batch was merged and the file read
C27_SimpleBatchReadBack ==
  /\ ReadAfterMerge
  /\ Len(NewReallocation) = 2
  /\ Len(NewAfr) = 0


(***************************************************************************)
(* C28.  Every section appended by mergeSpreadsheet starts with a header   *)
(* row the Reader recognizes as a section start, for every value of the    *)
(* meetingDate option, also an absent or unparseable one; so the rows of   *)
(* the new section are read under the new section's date.                  *)
(***************************************************************************)
\* row number of the header of the section written last: the merged title
\* row nearest above the first record
NewSectionHeaderRow ==
  LET rows == AFRRowsOf(doc)
  IN CHOOSE h \in 1..NewAfrRow(1) :
       /\ IsSectionHeader(rows[h])
       /\ \A q \in (h + 1)..NewAfrRow(1) : ~IsSectionHeader(rows[q])

\* the date the Reader takes from the header of the new section, "" if it
\* takes none
NewSectionDate ==
  extractWeekDate(getCellString(AFRRowsOf(doc), NewSectionHeaderRow, 1))

SectionAppended == ReadAfterMerge /\ WriterMade /\ Len(NewAfr) >= 1

\* the rows of the week of that date, none if there is no such week
AfrRowsOfWeek(date) ==
  IF HasWeek(parsed.weeks, date)
  THEN parsed.weeks[CHOOSE i \in DOMAIN parsed.weeks :
                      parsed.weeks[i].date = date].afrRequests
  ELSE << >>

\* the records of the batch are the last rows of the week
EndsWithBatch(weekRows) ==
  /\ Len(weekRows) >= Len(NewAfr)
  /\ \A k \in 1..Len(NewAfr) :
       weekRows[Len(weekRows) - Len(NewAfr) + k].organization =
         DisplayNameOf(NewAfr[k])

\* the record is one the Reader decodes whatever section it is in
Decodable(request) == ~MatchesSkipPattern(DisplayNameOf(request))

AllDecodable == \A k \in 1..Len(NewAfr) : Decodable(NewAfr[k])

C28_NewSectionHeaderRecognized ==
  (SectionAppended /\ AllDecodable) =>
    /\ NewSectionDate # ""
    /\ EndsWithBatch(AfrRowsOfWeek(NewSectionDate))

\* what holds: the header is recognized when the meeting date is one that
\* new Date() parses
C28_DatedSectionHeaderRecognized ==
  (SectionAppended /\ AllDecodable /\ meetingDate \in ParseableDates) =>
    /\ NewSectionDate = formatMeetingDate(meetingDate)
    /\ EndsWithBatch(AfrRowsOfWeek(NewSectionDate))

\* what holds: without such a date the header is not recognized, and the
\* rows are read under the date of the section above or not at all
C28_UndatedSectionHeaderNotRecognized ==
  (SectionAppended /\ meetingDate \notin ParseableDates) =>
    /\ NewSectionDate = ""
    /\ \A i \in DOMAIN parsed.weeks :
         parsed.weeks[i].date = formatMeetingDate("2026-02-01")

\* a section merged without meeting date below a dated one was read
C28_UndatedSectionReadUnderDateAbove ==
  /\ SectionAppended
  /\ meetingDate = ""
  /\ merges = 2
  /\ \E i \in DOMAIN parsed.weeks :
       /\ parsed.weeks[i].date = "2/1/26"
       /\ EndsWithBatch(parsed.weeks[i].afrRequests)

\* a first section merged with a text for a date was read: its rows are gone
C28_UndatedFirstSectionDropped ==
  /\ SectionAppended
  /\ meetingDate = "next Sunday"
  /\ parsed.weeks = << >>


(***************************************************************************)
(* C29.  Every data row under an active section with a non-empty           *)
(* organization is decoded as a data row whatever the organization's name: *)
(* a record whose display name begins with 'Total' or contains 'Remaining  *)
(* Budget' is returned and counted after being merged under a dated        *)
(* section.                                                                *)
(***************************************************************************)
DatedSectionAppended == SectionAppended /\ meetingDate \in ParseableDates

\* the number of rows of the week of that date the summaries report
RequestCountOf(date) ==
  IF \E i \in DOMAIN Summaries : Summaries[i].date = date
  THEN Summaries[CHOOSE i \in DOMAIN Summaries : Summaries[i].date = date].requestCount
  ELSE 0

C29_DataRowsDecodedWhateverTheName ==
  DatedSectionAppended =>
    /\ EndsWithBatch(AfrRowsOfWeek(NewSectionDate))
    /\ RequestCountOf(NewSectionDate) >= Len(NewAfr)

\* what holds: a row whose organization matches one of the skip patterns is
\* never returned
C29_RowsNamedLikeMarkersSkipped ==
  (HasBeenRead /\ WriterMade) =>
    \A row \in RowsRead :
      row.organization \notin {DisplayNameOf(ReqTotalFitness),
                               DisplayNameOf(ReqBudgetCommittee)}

\* the batch of 'Total Fitness' and 'SGA 1' was merged into an empty dated
\* section and read: the week has the one row of 'SGA 1'
C29_TotalFitnessMergedAndRead ==
  /\ DatedSectionAppended
  /\ merges = 1
  /\ batch = <<ReqTotalFitness, ReqSGA>>
  /\ RequestCountOf(NewSectionDate) = 1


(***************************************************************************)
(* C30.  In every parse result each data row of the workbook belongs to    *)
(* one category: no sheet is scanned both as the Pool-Tracked sheet and as *)
(* the Simple sheet, so no row is counted in afrCount and again in         *)
(* reallocationCount, also when the workbook has no sheet of a             *)
(* Pool-Tracked name and its first sheet is the Simple sheet.              *)
(***************************************************************************)
ScannedAsBoth(d) ==
  /\ d.kind = "wb"
  /\ readerAFRWorksheet(d.sheets) # 0
  /\ readerAFRWorksheet(d.sheets) = readerReallocationWorksheet(d.sheets)

\* the rows of the located sheets that show an organization in column C
RowsWithOrganization(d) ==
  UNION {{<<n, r>> : r \in {q \in 1..Len(d.sheets[n].rows) :
                              getCellString(d.sheets[n].rows, q, 3)
                                \notin {"", "Organization"}}} :
         n \in LocatedCategorySheets(d)}

RECURSIVE TotalRequestCount(_, _)
TotalRequestCount(summaries, i) ==
  IF i > Len(summaries) THEN 0
  ELSE summaries[i].requestCount + TotalRequestCount(summaries, i + 1)

C30_EachRowInOneCategory ==
  (HasBeenRead /\ doc.kind = "wb") =>
    /\ ~ScannedAsBoth(doc)
    /\ TotalRequestCount(Summaries, 1) <= Cardinality(RowsWithOrganization(doc))

\* what holds: the two scans take different sheets, and no row is counted
\* twice, when the workbook has a sheet of a Pool-Tracked name or its sheet
\* of id 1 is not the Simple sheet
HasPoolTrackedName(d) ==
  SheetsOfCategory(d, {"AFR Requests", "AFR", "Sunday Meeting"}) # {}

C30_OneCategoryUnlessFirstSheetIsSimple ==
  (HasBeenRead /\ doc.kind = "wb") =>
    /\ ScannedAsBoth(doc) <=>
         /\ ~HasPoolTrackedName(doc)
         /\ getWorksheetById(doc.sheets, 1) # 0
         /\ getWorksheetById(doc.sheets, 1) = readerReallocationWorksheet(doc.sheets)
    /\ ~ScannedAsBoth(doc) =>
         TotalRequestCount(Summaries, 1) <= Cardinality(RowsWithOrganization(doc))

\* a workbook whose only sheet is 'Reallocation Requests' was merged into and
\* read: the rows of a week are counted in both categories
C30_RowsCountedInBothCategories ==
  /\ HasBeenRead
  /\ ScannedAsBoth(doc)
  /\ \E i \in DOMAIN Summaries :
       /\ Summaries[i].afrCount > 0
       /\ Summaries[i].reallocationCount = Summaries[i].afrCount
       /\ Summaries[i].requestCount = 2 * Summaries[i].afrCount

====
